---- MODULE Spec2Model ----
(***************************************************************************)
(* The LUT colour-grading pipeline of RandomImageViewer (src/main.py):     *)
(* the incremental scheduler (_start_async_lut_processing,                  *)
(* _process_lut_chunk, _finish_async_lut_processing, _async_finalize_step), *)
(* the result cache (_lut_process_cache) and the handlers that submit work. *)
(*                                                                         *)
(* Everything runs on the Qt GUI thread.  A handler runs until it returns  *)
(* or reaches QApplication.processEvents(); at such a yield the event loop *)
(* may deliver further events, whose handlers run nested on top of the      *)
(* yielding one.  `stack` is that call stack; only its top frame runs.      *)
(*                                                                         *)
(* Pixel data is abstracted to a descriptor: which image it came from,     *)
(* which LUT/strength was applied, the geometry baked in, which job made   *)
(* it and how many rows that job had transformed.                          *)
(***************************************************************************)
EXTENDS Integers, Sequences, FiniteSets, TLC

(* ---------------- bounds of the model ---------------- *)
NumImages == 2          \* image files in the folder
NumLuts == 1            \* .cube files in the LUT folder
MaxJobs == 3            \* full-quality jobs started in one run
MaxUserEvents == 4      \* user inputs delivered in one run
MaxDepth == 4           \* nesting of handlers through processEvents
MaxPixmapIds == 1       \* distinct values id(pixmap) takes for temporaries
MaxLines == 1           \* vertical lines drawn
MaxLoads == 2           \* calls of load_cube_lut made on its own
MaxRuns == 2            \* runs of equal data rows in a .cube file
MaxCalls == 32          \* calls of _manage_cache made on its own
MaxRepeats == 1         \* of them, calls with a key that was used before

(* ---------------- program constants ---------------- *)
ChunkRows == 8              \* chunk_size without line overlays
ChunkRowsLines == 4         \* chunk_size with line overlays
YieldPixels == 5000         \* yield_frequency without line overlays
YieldPixelsLines == 2000    \* yield_frequency with line overlays
GpuThreshold == 150000      \* gpu_threshold without line overlays
GpuThresholdLines == 50000  \* gpu_threshold with line overlays
FinalCacheMax == 3          \* max_cache_size in _async_finalize_step
ApplyCacheMaxSmall == 8     \* max_cache_size in apply_lut_to_image, < 1 MP
ApplyCacheMaxLarge == 4     \* max_cache_size in apply_lut_to_image, >= 1 MP
ApplyCachePixels == 1000000 \* the pixel count separating the two
max_cache_size == 20        \* self.max_cache_size used by _manage_cache
DefaultStrength == 100      \* self.lut_strength after construction
LutCacheMax == 10           \* parsed LUTs kept in self.lut_cache
DefaultLutSize == 32        \* lut_size when no LUT_3D_SIZE line is found
MaxLutSize == 256           \* the largest LUT_3D_SIZE accepted

None == 0
Images == 1..NumImages
Luts == 1..NumLuts        \* the well-formed .cube files of the LUT folder
BadLut == NumLuts + 1     \* a .cube file of that folder cut short
Strengths == {0, 50, 100}
Grays == {0, 100}

(* The image files: image 1 is 1000x16 (two chunks of 8 rows, or four of 4 *)
(* rows with line overlays), image 2 is 10000x16 (above both GPU           *)
(* thresholds, two chunks when the GPU fails), a third image is 1000x8.    *)
Width(i) == IF i = 2 THEN 10000 ELSE 1000
Height(i) == IF i = 3 THEN 8 ELSE 16

Min(a, b) == IF a < b THEN a ELSE b
Max(a, b) == IF a > b THEN a ELSE b

VARIABLES
    self,      \* the RandomImageViewer object: its attributes
    heap,      \* the _async_processing_state dictionaries ever created
    stack,     \* the handlers in progress, innermost last
    pending,   \* QTimer.singleShot callbacks not yet fired
    inputs,    \* user inputs delivered so far
    disk       \* the .cube files on disk, by path

vars == <<self, heap, stack, pending, inputs, disk>>

(* ---------------- pixel buffers ---------------- *)
\* kind: "none" no pixmap, "plain" the file as loaded, "preview" downscaled
\* LUT preview, "sync" result of apply_lut_to_image on the full image,
\* "full" result of a chunked or GPU job.
NoBuf == [kind |-> "none", job |-> 0, img |-> 0, lut |-> 0, str |-> 0,
          rot |-> 0, fh |-> FALSE, rows |-> 0, twice |-> FALSE]

BasePixmap(i) == [NoBuf EXCEPT !.kind = "plain", !.img = i]

\* QPixmap.transformed by the current rotation and horizontal flip
Transformed(s, b) ==
    [b EXCEPT !.rot = (b.rot + s.rotation_angle) % 360,
              !.fh = (b.fh # s.flipped_h)]

\* the colour transform applied to a whole pixmap
LutApplied(b, kind, l, v) ==
    [b EXCEPT !.kind = kind, !.lut = l, !.str = v,
              !.twice = (b.twice \/ b.lut # None)]

(* ---------------- ordered dictionaries ---------------- *)
\* A Python dict as the sequence of its items in insertion order.
Keys(d) == {d[i].key : i \in 1..Len(d)}
Lookup(d, k) == (CHOOSE i \in 1..Len(d) : d[i].key = k)
Get(d, k) == d[Lookup(d, k)].val
\* d[k] = v : an existing key keeps its place
Put(d, k, v) ==
    IF k \in Keys(d)
    THEN [d EXCEPT ![Lookup(d, k)] = [key |-> k, val |-> v]]
    ELSE Append(d, [key |-> k, val |-> v])
\* del d[next(iter(d))]
DelOldest(d) == Tail(d)

(* ---------------- .cube files ---------------- *)
\* A file is its lines in order; a run of n equal lines is written once.
\* A line is known by what load_cube_lut looks at:
\*   kind "comment"  blank, or starting with '#'
\*        "size"     starting with LUT_3D_SIZE; val is its last token and
\*                   numeric tells whether int() accepts that token
\*        "meta"     starting with TITLE, DOMAIN_MIN or DOMAIN_MAX
\*        "row"      any other line: fields is the number of its tokens,
\*                   space whether it contains a blank, numeric whether
\*                   float() accepts each of its first three tokens
\* io tells what the file system answers: "ok", "missing" (os.path.getsize
\* raises), "big" (more than 50 MB) or "unreadable" (open raises).
Line(kind, n, val, fields, numeric) ==
    [kind |-> kind, n |-> n, val |-> val, fields |-> fields,
     space |-> fields >= 2, numeric |-> numeric]

Comment == Line("comment", 1, 0, 0, FALSE)
Title == Line("meta", 1, 0, 2, FALSE)
DomainMin == Line("meta", 1, 0, 4, FALSE)
SizeLine(v) == Line("size", 1, v, 2, TRUE)
SizeLineNotInt == Line("size", 1, 0, 2, FALSE)
Rows(n) == Line("row", n, 0, 3, TRUE)
ShortRow == Line("row", 1, 0, 2, TRUE)
OneFieldRow == Line("row", 1, 0, 1, TRUE)
TextRow == Line("row", 1, 0, 3, FALSE)

CubeFile(io, lines) == [io |-> io, lines |-> lines]

\* a well-formed file: 2x2x2 lattice
GoodCube == CubeFile("ok", <<Comment, Title, SizeLine(2), DomainMin, Rows(8)>>)
\* the same file cut short by one row
TruncatedCube == CubeFile("ok", <<Comment, Title, SizeLine(2), DomainMin, Rows(7)>>)

IsComment(r) == r.kind = "comment"
IsSizeLine(r) == r.kind = "size"
IsDataLine(r) == r.kind = "row" /\ r.space

\* lines: stripped, non-empty, not starting with '#'
KeptLines(lines) == SelectSeq(lines, LAMBDA r : ~IsComment(r))
\* the lines starting with LUT_3D_SIZE, of which the loop reads the first
SizeLines(lines) == SelectSeq(KeptLines(lines), IsSizeLine)
\* data_lines: not metadata, containing a blank
DataLines(lines) == SelectSeq(KeptLines(lines), IsDataLine)

\* the loop over data_lines: a line of fewer than three tokens is passed
\* over, float() raises on a token that is no number, and the loop stops
\* as soon as the list holds `expected` triples.  Returns the length of
\* lut_data and whether ValueError was raised.
RECURSIVE ParseRows(_, _, _)
ParseRows(rows, len, expected) ==
    IF rows = <<>> THEN [len |-> len, error |-> FALSE]
    ELSE LET r == Head(rows) IN
         IF r.fields < 3 THEN ParseRows(Tail(rows), len, expected)
         ELSE IF ~r.numeric THEN [len |-> len, error |-> TRUE]
         ELSE LET room == expected - len
                  taken == IF room <= 1 THEN 1 ELSE Min(r.n, room)
              IN  IF len + taken >= expected
                  THEN [len |-> len + taken, error |-> FALSE]
                  ELSE ParseRows(Tail(rows), len + taken, expected)

\* the LUT dictionary built from a parsed file: 'size', the length of
\* 'data', 'file_path'
LutResult(size, len, path) == [size |-> size, len |-> len, file_path |-> path]
NoLut == LutResult(0, 0, 0)

\* load_cube_lut from open() on: what it returns (NoLut for None) and the
\* message it leaves in the status bar
ParseCube(f, path) ==
    LET sizes == SizeLines(f.lines)
        lut_size == IF sizes = <<>> THEN DefaultLutSize ELSE Head(sizes).val
        expected == lut_size * lut_size * lut_size
        p == ParseRows(DataLines(f.lines), 0, expected)
    IN  IF f.io = "unreadable" \/ (sizes # <<>> /\ ~Head(sizes).numeric)
        THEN [lut |-> NoLut, message |-> "Error loading LUT"]
        ELSE IF lut_size > MaxLutSize
        THEN [lut |-> NoLut, message |-> "LUT size too large"]
        ELSE IF p.error
        THEN [lut |-> NoLut, message |-> "Error parsing LUT"]
        ELSE IF p.len # expected
        THEN [lut |-> NoLut, message |-> "Invalid LUT format"]
        ELSE [lut |-> LutResult(lut_size, p.len, path), message |-> "LUT loaded"]

\* the store as it would be if nothing were ever removed
LutCachePutUnbounded(c, path, lut) == Put(c, path, lut)

\* self.lut_cache[file_path] = lut_result, then at most LutCacheMax kept
LutCachePut(c, path, lut) ==
    LET c1 == Put(c, path, lut)
    IN  IF Len(c1) > LutCacheMax THEN DelOldest(c1) ELSE c1

\* load_cube_lut up to its processEvents as it would be if it did not look
\* into self.lut_cache
LoadCubeLutEnterNoCache(s, f, path) ==
    IF f.io = "missing"
    THEN [s |-> [s EXCEPT !.lut_message = "Error loading LUT"],
          out |-> "none", lut |-> NoLut]
    ELSE IF f.io = "big"
    THEN [s |-> [s EXCEPT !.lut_message = "LUT file too large"],
          out |-> "none", lut |-> NoLut]
    ELSE [s |-> [s EXCEPT !.lut_message = "Loading LUT"],
          out |-> "yield", lut |-> NoLut]

\* load_cube_lut up to its processEvents: the cache, the size of the file.
\* out tells how this part ends: "hit" returns lut, "none" returns None,
\* "yield" goes on to processEvents.
LoadCubeLutEnter(s, f, path) ==
    IF path \in Keys(s.lut_cache)
    THEN [s |-> [s EXCEPT !.lut_message = "LUT loaded from cache"],
          out |-> "hit", lut |-> Get(s.lut_cache, path)]
    ELSE IF f.io = "missing"
    THEN [s |-> [s EXCEPT !.lut_message = "Error loading LUT"],
          out |-> "none", lut |-> NoLut]
    ELSE IF f.io = "big"
    THEN [s |-> [s EXCEPT !.lut_message = "LUT file too large"],
          out |-> "none", lut |-> NoLut]
    ELSE [s |-> [s EXCEPT !.lut_message = "Loading LUT"],
          out |-> "yield", lut |-> NoLut]

\* load_cube_lut after its processEvents as it would be if it stored the
\* rows it has read before the number of rows is verified
LoadCubeLutParseStoresFirst(s, f, path) ==
    LET r == ParseCube(f, path)
        sizes == SizeLines(f.lines)
        lut_size == IF sizes = <<>> THEN DefaultLutSize ELSE Head(sizes).val
        read == LutResult(lut_size, ParseRows(DataLines(f.lines), 0,
                                             lut_size * lut_size * lut_size).len, path)
    IN  [s |-> [s EXCEPT !.lut_message = r.message,
                         !.lut_cache =
                            IF r.message \in {"LUT loaded", "Invalid LUT format"}
                            THEN LutCachePut(@, path, read) ELSE @],
         lut |-> r.lut]

\* load_cube_lut after its processEvents: read, parse, verify, cache
LoadCubeLutParse(s, f, path) ==
    LET r == ParseCube(f, path)
    IN  [s |-> [s EXCEPT !.lut_message = r.message,
                         !.lut_cache = IF r.lut = NoLut THEN @
                                       ELSE LutCachePut(@, path, r.lut)],
         lut |-> r.lut]

(* ---------------- cache keys ---------------- *)
NoKey == [kind |-> "none", id |-> 0, dim |-> "", img |-> 0, lut |-> 0,
          str |-> 0, lines |-> 0, gray |-> 0]

HasLines(s) == s.lines_visible /\ s.drawn_lines > 0

\* getattr(self.current_lut, 'file_path', 'unknown'): current_lut is a dict,
\* so the attribute lookup fails and the default is returned.  0 stands for
\* the string 'unknown'.
LutFilePathAttr(l) == 0

\* _get_lut_cache_key
GetLutCacheKey(s) ==
    IF ~s.lut_enabled \/ s.current_lut = None \/ s.current_image = None
    THEN NoKey
    ELSE [kind |-> "sig", id |-> 0, dim |-> "", img |-> s.current_image,
          lut |-> LutFilePathAttr(s.current_lut), str |-> s.lut_strength,
          lines |-> IF HasLines(s) THEN s.drawn_lines ELSE 0,
          gray |-> s.grayscale_value]

\* the key built at the top of apply_lut_to_image from id(pixmap), the
\* pixmap's dimensions, lut['file_path'] and the strength
ApplyKey(pix, id, path, v) ==
    [kind |-> "lut", id |-> id,
     dim |-> IF pix.kind \in {"thumb", "preview"} THEN "thumb" ELSE "image",
     img |-> pix.img, lut |-> path, str |-> v, lines |-> 0, gray |-> 0]

\* the key of enhancement_cache built by display_image
EnhKey(s, i) ==
    [img |-> i, gray |-> s.grayscale_value, rot |-> s.rotation_angle,
     fh |-> s.flipped_h, lut |-> s.current_lut_name, str |-> s.lut_strength]

\* _manage_cache as it would be if it kept the oldest half of the items
ManageCacheKeepsOldest(d, k, v) ==
    LET keep == max_cache_size \div 2
        d1 == IF Len(d) >= max_cache_size
              THEN SubSeq(d, 1, keep)
              ELSE d
    IN  Put(d1, k, v)

\* _manage_cache: at the limit keep the newest max_cache_size/2 items
ManageCache(d, k, v) ==
    LET keep == max_cache_size \div 2
        d1 == IF Len(d) >= max_cache_size
              THEN SubSeq(d, Len(d) - keep + 1, Len(d))
              ELSE d
    IN  Put(d1, k, v)

(* ---------------- the colour transform on whole pixmaps ---------------- *)
LutActive(s) == s.lut_enabled /\ s.current_lut # None /\ s.lut_strength > 0

ResultKind(b) ==
    CASE b.kind = "plain" -> "sync"
      [] b.kind = "thumb" -> "preview"
      [] OTHER -> b.kind

\* apply_lut_to_image(pixmap, lut, strength); path is lut['file_path'] and
\* id is id(pixmap).  Returns the new viewer state and the resulting pixmap.
\* The GPU and the CPU branch store the same things.
ApplyLutToImage(s, pix, l, path, v, id) ==
    IF l = None \/ pix.kind = "none"
    THEN [s |-> s, out |-> pix]
    ELSE LET k == ApplyKey(pix, id, path, v)
             c == s.lut_process_cache
         IN  IF k \in Keys(c)
             THEN [s |-> s, out |-> Get(c, k)]
             ELSE LET res == LutApplied(pix, ResultKind(pix), l, v)
                      limit == IF Width(pix.img) * Height(pix.img) < ApplyCachePixels
                               THEN ApplyCacheMaxSmall ELSE ApplyCacheMaxLarge
                      c1 == IF Len(c) > limit THEN DelOldest(c) ELSE c
                  IN  [s |-> [s EXCEPT !.lut_process_cache = Put(c1, k, res),
                                       !.last_processed_image = res,
                                       !.last_processed_has_lut = LutActive(s)],
                       out |-> res]

\* apply_fast_enhancements: grayscale/contrast/gamma, then the LUT whenever
\* one is loaded and the strength is positive
ApplyFastEnhancements(s, pix, id) ==
    IF s.current_lut # None /\ s.lut_strength > 0
    THEN ApplyLutToImage(s, pix, s.current_lut, s.current_lut, s.lut_strength, id)
    ELSE [s |-> s, out |-> pix]

\* clear_lut_cache
ClearLutCache(s) ==
    [s EXCEPT !.lut_process_cache = <<>>, !.last_processed_image = NoBuf,
              !.last_processed_has_lut = FALSE, !.enhancement_cache = <<>>]

(* ---------------- the scheduler ---------------- *)
\* the pixmap made from a job's image by QPixmap.fromImage
JobPixmap(h, j) ==
    [NoBuf EXCEPT !.kind = "full", !.job = j, !.img = h[j].img,
                  !.lut = h[j].lut, !.str = h[j].str, !.rows = h[j].rows,
                  !.twice = h[j].twice]

\* _async_finalize_step
AsyncFinalizeStep(s, id) ==
    IF s.final_processing_state = NoBuf
    THEN s
    ELSE LET p1 == Transformed(s, s.final_processing_state)
             e == IF s.grayscale_value # 0
                  THEN ApplyFastEnhancements(s, p1, id)
                  ELSE [s |-> s, out |-> p1]
             key == GetLutCacheKey(e.s)
             c == Put(e.s.lut_process_cache, key, e.out)
             c1 == IF key = NoKey THEN e.s.lut_process_cache
                   ELSE IF Len(c) > FinalCacheMax THEN DelOldest(c) ELSE c
         IN  [e.s EXCEPT !.pixmap = e.out, !.lut_process_cache = c1,
                         !.final_processing_state = NoBuf]

\* _finish_async_lut_processing as it would be if it were handed the state
\* dictionary its caller had been working on
FinishedStateOfCaller(s, local) == local

\* which state dictionary _finish_async_lut_processing turns into the final
\* pixmap: the viewer's attribute, not the caller's local variable
FinishedState(s, local) == s.async_processing_state

\* _finish_async_lut_processing as it would be without
\* `self._async_processing_state = None`
FinishAsyncKeepsState(s, h, local, id) ==
    LET s0 == [s EXCEPT !.timer_active = FALSE]
    IN  IF s.async_processing_state = None
        THEN s0
        ELSE AsyncFinalizeStep(
                 [s0 EXCEPT !.final_processing_state =
                               JobPixmap(h, s.async_processing_state)], id)

\* _finish_async_lut_processing, called by the chunk whose local state
\* dictionary is `local`
FinishAsyncLutProcessing(s, h, local, id) ==
    LET s0 == [s EXCEPT !.timer_active = FALSE]
        j == FinishedState(s, local)
    IN  IF s.async_processing_state = None
        THEN s0
        ELSE AsyncFinalizeStep(
                 [s0 EXCEPT !.final_processing_state = JobPixmap(h, j),
                            !.async_processing_state = None], id)

(* ---------------- jobs ---------------- *)
\* A job is one run of the full-quality transform.  cache_key .. twice are
\* the entries of its state dictionary and its image; the remaining fields
\* record how the job was started and what happened to it.
NoJob == [used |-> FALSE, gpu |-> FALSE, cache_key |-> NoKey, img |-> 0,
          lut |-> 0, str |-> 0, chunk_size |-> 0, current_row |-> 0,
          total_rows |-> 0, rows |-> 0, twice |-> FALSE,
          sup |-> "none", over |-> FALSE, hit |-> FALSE,
          cancelled |-> FALSE, superseded |-> FALSE, failed |-> FALSE,
          lost |-> FALSE]

Jobs == 1..MaxJobs
Used(h) == {j \in Jobs : h[j].used}
NextJob(h) == Cardinality(Used(h)) + 1

\* the rows [a, b) of job j's image are transformed in place
MarkRows(h, j, a, b) ==
    [h EXCEPT ![j].rows = Max(h[j].rows, b),
              ![j].twice = (h[j].twice \/ (a < b /\ a < h[j].rows))]

(* ---------------- the call stack ---------------- *)
Frame(fn, arg) ==
    [fn |-> fn, pc |-> "start", arg |-> arg, job |-> 0, y |-> 0, end |-> 0,
     yf |-> 0, tick |-> FALSE, reg |-> 0]

\* the program points that are QApplication.processEvents() calls
YieldPcs == {"y4836", "y3066", "y4909", "y5083", "y5815", "y2733", "y2745",
             "y5553", "y5642", "y5099", "y5186", "y5304"}

Top == stack[Len(stack)]
Running(fn, pc) == stack # <<>> /\ Top.fn = fn /\ Top.pc = pc
Popped == SubSeq(stack, 1, Len(stack) - 1)
Goto(pc) == [stack EXCEPT ![Len(stack)].pc = pc]
Call(pc, f) == Append(Goto(pc), f)

\* the event loop delivers an event: at top level, or inside processEvents
CanDispatch ==
    IF stack = <<>> THEN TRUE
    ELSE Top.pc \in YieldPcs /\ Len(stack) < MaxDepth

\* Qt does not deliver a timer's timeout again while the handler of that
\* same registration is still running; QTimer.start() registers anew.
TimerBusy == \E n \in 1..Len(stack) : stack[n].tick /\ stack[n].reg = self.timer_reg

Idle ==
    /\ stack = <<>>
    /\ self.async_processing_state = None
    /\ self.final_processing_state = NoBuf
    /\ pending.lut = 0 /\ pending.image = 0
    /\ ~self.timer_active

(* ---------------- construction ---------------- *)
\* the viewer as __init__ leaves it; g tells whether a GPU was found
Constructed(g) ==
    [current_image |-> None, current_lut |-> None,
     current_lut_name |-> None, lut_enabled |-> FALSE,
     lut_strength |-> DefaultStrength, rotation_angle |-> 0,
     flipped_h |-> FALSE, grayscale_value |-> 0,
     lines_visible |-> TRUE, drawn_lines |-> 0,
     gpu_enabled |-> g,
     async_processing_state |-> None,
     final_processing_state |-> NoBuf,
     lut_process_cache |-> <<>>, enhancement_cache |-> <<>>,
     last_processed_image |-> NoBuf,
     last_processed_has_lut |-> FALSE,
     lut_cache |-> <<>>, pixmap |-> NoBuf,
     lut_message |-> "",
     timer_active |-> FALSE, timer_reg |-> 0, quiet |-> TRUE]

Init ==
    /\ \E g \in BOOLEAN : self = Constructed(g)
    /\ heap = [j \in Jobs |-> NoJob]
    /\ stack = <<>>
    /\ pending = [lut |-> 0, image |-> 0]
    /\ inputs = 0
    /\ disk = [p \in Luts \cup {BadLut} |->
                 IF p \in Luts THEN GoodCube ELSE TruncatedCube]

PixmapIds == 1..MaxPixmapIds
\* the pixels of image i scaled into a box of side ps, keeping its aspect
PreviewPixels(i, ps) ==
    (ps * ps * Min(Width(i), Height(i))) \div Max(Width(i), Height(i))

\* preview_size of _create_fast_lut_preview on the largest display
PreviewSizeLut(s, i) ==
    IF HasLines(s)
    THEN Min(1600, (Min(Width(i), Height(i)) * 8) \div 10)
    ELSE Min(1200, (Min(Width(i), Height(i)) * 67) \div 100)

\* preview_size of _create_fast_image_lut_preview
PreviewSizeImage(s, i) ==
    IF HasLines(s)
    THEN Min(1000, (Min(Width(i), Height(i)) * 2) \div 3)
    ELSE Min(600, Min(Width(i), Height(i)) \div 2)

\* whether a preview of `pixels` pixels is handed to the GPU directly and
\* comes back: only above the limit, and apply_lut_gpu may return None
GpuChoices(s, pixels, limit, limitLines) ==
    IF s.gpu_enabled /\ (pixels > limit \/ (HasLines(s) /\ pixels > limitLines))
    THEN BOOLEAN ELSE {FALSE}

\* lut_dict['file_path'] of the previews: getattr on a dict gives 'preview'
PreviewPath == -1

\* _create_fast_lut_preview / _create_fast_image_lut_preview for image i:
\* downscale, transform on the GPU or through apply_lut_to_image, apply
\* rotation and flips, show
FastPreview(s, i, direct, id) ==
    LET thumb == [BasePixmap(i) EXCEPT !.kind = "thumb"]
        e == IF s.current_lut = None THEN [s |-> s, out |-> thumb]
             ELSE IF direct
             THEN [s |-> s,
                   out |-> LutApplied(thumb, "preview", s.current_lut, s.lut_strength)]
             ELSE ApplyLutToImage(s, thumb, s.current_lut, PreviewPath,
                                  s.lut_strength, id)
    IN  [e.s EXCEPT !.pixmap = Transformed(e.s, e.out)]

(* ---------------- _start_async_lut_processing ---------------- *)
\* hasattr(self._async_processing_state, 'cache_key'): the state is a dict,
\* and a dict has no attribute of that name
HasAttrCacheKey(st) == FALSE

\* the duplicate test at the top of _start_async_lut_processing
IsDuplicate(s, h, key) ==
    /\ s.async_processing_state # None
    /\ HasAttrCacheKey(s.async_processing_state)
    /\ h[s.async_processing_state].cache_key = key

\* "Stop any existing processing"
StopExisting(s) ==
    IF s.async_processing_state # None
    THEN [s EXCEPT !.timer_active = FALSE, !.async_processing_state = None]
    ELSE s

\* the jobs in flight: the one in _async_processing_state and the one whose
\* pixmap waits in _final_processing_state
InFlight(s) ==
    (IF s.async_processing_state # None THEN {s.async_processing_state} ELSE {})
    \cup (IF s.final_processing_state # NoBuf
          THEN {s.final_processing_state.job} ELSE {})

\* the record of a job as it would be if every job had the chunk size of a
\* job without line overlays
NewJobOneChunkSize(s, h, key, gpu) ==
    LET i == s.current_image
        old == s.async_processing_state
    IN  [NoJob EXCEPT
           !.used = TRUE, !.gpu = gpu, !.cache_key = key, !.img = i,
           !.lut = s.current_lut, !.str = s.lut_strength,
           !.chunk_size = ChunkRows,
           !.current_row = 0, !.total_rows = Height(i),
           !.rows = IF gpu THEN Height(i) ELSE 0,
           !.sup = IF old = None THEN "none"
                   ELSE IF h[old].cache_key = key THEN "same" ELSE "diff",
           !.over = (\E a \in InFlight(s) : h[a].cache_key # key),
           !.hit = /\ s.quiet
                   /\ key \in Keys(s.lut_process_cache)
                   /\ LET b == Get(s.lut_process_cache, key)
                      IN  /\ b.job # 0 /\ b.job = NextJob(h) - 1
                          /\ h[b.job].cache_key = key
                          /\ b.rows = h[b.job].total_rows]

\* the record of job j started for the current attributes under `key`
NewJob(s, h, key, gpu) ==
    LET i == s.current_image
        old == s.async_processing_state
    IN  [NoJob EXCEPT
           !.used = TRUE, !.gpu = gpu, !.cache_key = key, !.img = i,
           !.lut = s.current_lut, !.str = s.lut_strength,
           !.chunk_size = IF HasLines(s) THEN ChunkRowsLines ELSE ChunkRows,
           !.current_row = 0, !.total_rows = Height(i),
           !.rows = IF gpu THEN Height(i) ELSE 0,
           !.sup = IF old = None THEN "none"
                   ELSE IF h[old].cache_key = key THEN "same" ELSE "diff",
           !.over = (\E a \in InFlight(s) : h[a].cache_key # key),
           !.hit = /\ s.quiet
                   /\ key \in Keys(s.lut_process_cache)
                   /\ LET b == Get(s.lut_process_cache, key)
                      IN  /\ b.job # 0 /\ b.job = NextJob(h) - 1
                          /\ h[b.job].cache_key = key
                          /\ b.rows = h[b.job].total_rows]

\* what a new submission does to the records of the jobs in flight
Superseding(s, h, key) ==
    [j \in Jobs |->
        IF j \in InFlight(s)
        THEN [h[j] EXCEPT
                !.cancelled = (h[j].cancelled \/ j = s.async_processing_state),
                !.superseded = (h[j].superseded \/ h[j].cache_key # key)]
        ELSE h[j]]

\* the CPU setup as it would be if a failed GPU attempt made
\* _start_async_lut_processing give up
SetupAsyncStateSkipped(s, j) == s

\* "Setup async processing state": the CPU path, taken when the GPU was not
\* tried, returned None or raised
SetupAsyncState(s, j) == [s EXCEPT !.async_processing_state = j]

StartAsync_Start ==
    /\ Running("start_async", "start")
    /\ UNCHANGED <<pending, inputs, disk>>
    /\ LET key == GetLutCacheKey(self) IN
       IF self.current_image = None \/ self.current_lut = None
          \/ IsDuplicate(self, heap, key)
       THEN /\ stack' = Popped
            /\ UNCHANGED <<self, heap, disk>>
       ELSE LET j == NextJob(heap)
                i == self.current_image
                threshold == IF HasLines(self) THEN GpuThresholdLines
                             ELSE GpuThreshold
                tryGpu == self.gpu_enabled /\ Width(i) * Height(i) > threshold
                s1 == [StopExisting(self) EXCEPT !.quiet = TRUE]
                h1 == Superseding(self, heap, key)
            IN  /\ j <= MaxJobs
                /\ \E ok \in (IF tryGpu THEN BOOLEAN ELSE {FALSE}) :
                     LET h2 == [h1 EXCEPT ![j] = NewJob(self, heap, key, ok)] IN
                     /\ heap' = h2
                     /\ IF ok
                        THEN /\ self' = [s1 EXCEPT !.final_processing_state =
                                                      JobPixmap(h2, j)]
                             /\ stack' = Goto("y5186")
                        ELSE /\ self' = SetupAsyncState(s1, j)
                             /\ stack' = Call("after_chunk", Frame("chunk", 0))

\* the GPU branch after its processEvents: finalize directly
StartAsync_GpuFinalize ==
    /\ Running("start_async", "y5186")
    /\ \E id \in PixmapIds : self' = AsyncFinalizeStep(self, id)
    /\ stack' = Popped
    /\ UNCHANGED <<heap, pending, inputs, disk>>

\* the CPU branch after the first chunk: timer.start(1)
StartAsync_StartTimer ==
    /\ Running("start_async", "after_chunk")
    /\ self' = [self EXCEPT !.timer_active = TRUE,
                            !.timer_reg = self.timer_reg + 1]
    /\ stack' = Popped
    /\ UNCHANGED <<heap, pending, inputs, disk>>

(* ---------------- _process_lut_chunk ---------------- *)
\* a run of _process_lut_chunk as it would be if it did not store end_row
\* in the state
ChunkRunKeepsRow(f, id) ==
    LET j == f.job
        perYield == (f.yf + Width(heap[j].img) - 1) \div Width(heap[j].img)
        ny == f.y + perYield
    IN  IF ny <= f.end
        THEN /\ heap' = MarkRows(heap, j, f.y, ny)
             /\ stack' = [stack EXCEPT ![Len(stack)] =
                              [f EXCEPT !.y = ny, !.pc = "y5304"]]
             /\ self' = self
        ELSE LET h1 == MarkRows(heap, j, f.y, f.end)
             IN  /\ heap' = h1
                 /\ stack' = Popped
                 /\ self' = IF f.end >= heap[j].total_rows
                            THEN FinishAsyncLutProcessing(self, h1, j, id)
                            ELSE self

\* the pixel loop of frame f from row f.y up to the next yield or the end
\* of the chunk, then the progress update and the completion test.  The
\* loop yields every f.yf pixels; yields that fall inside a row are
\* represented by the one at the end of that row.
ChunkRun(f, id) ==
    LET j == f.job
        perYield == (f.yf + Width(heap[j].img) - 1) \div Width(heap[j].img)
        ny == f.y + perYield
    IN  IF ny <= f.end
        THEN /\ heap' = MarkRows(heap, j, f.y, ny)
             /\ stack' = [stack EXCEPT ![Len(stack)] =
                              [f EXCEPT !.y = ny, !.pc = "y5304"]]
             /\ self' = self
        ELSE LET h1 == [MarkRows(heap, j, f.y, f.end) EXCEPT
                          ![j].current_row = f.end]
             IN  /\ heap' = h1
                 /\ stack' = Popped
                 /\ self' = IF f.end >= heap[j].total_rows
                            THEN FinishAsyncLutProcessing(self, h1, j, id)
                            ELSE self

Chunk_Start ==
    /\ Running("chunk", "start")
    /\ UNCHANGED <<pending, inputs, disk>>
    /\ IF self.async_processing_state = None
       THEN /\ self' = [self EXCEPT !.timer_active = FALSE]
            /\ stack' = Popped
            /\ heap' = heap
       ELSE LET j == self.async_processing_state
                row == heap[j].current_row
                f == [Top EXCEPT
                        !.job = j, !.y = row,
                        !.end = Min(row + heap[j].chunk_size, heap[j].total_rows),
                        !.yf = IF HasLines(self) THEN YieldPixelsLines
                               ELSE YieldPixels]
            IN  \E id \in PixmapIds : ChunkRun(f, id)

Chunk_Continue ==
    /\ Running("chunk", "y5304")
    /\ UNCHANGED <<pending, inputs, disk>>
    /\ \E id \in PixmapIds : ChunkRun(Top, id)

\* the timeout of _async_processing_timer, connected to _process_lut_chunk
TimerTick ==
    /\ CanDispatch
    /\ self.timer_active /\ ~TimerBusy
    /\ stack' = Append(stack, [Frame("chunk", 0) EXCEPT
                                 !.tick = TRUE, !.reg = self.timer_reg])
    /\ UNCHANGED <<self, heap, pending, inputs, disk>>

\* a call that has nothing left to do after its callee returned
Return ==
    /\ stack # <<>> /\ Top.pc = "ret"
    /\ stack' = Popped
    /\ UNCHANGED <<self, heap, pending, inputs, disk>>

(* ---------------- display_image ---------------- *)
DisplayImage_Start ==
    /\ Running("display_image", "start")
    /\ UNCHANGED <<heap, pending, inputs, disk>>
    /\ LET img == Top.arg
           s1 == IF self.current_image # img THEN ClearLutCache(self) ELSE self
           ek == EnhKey(s1, img)
           lk == GetLutCacheKey(s1)
           enhHit == ek \in Keys(s1.enhancement_cache)
           lutHit == lk \in Keys(s1.lut_process_cache)
       IN  IF ~enhHit /\ LutActive(s1) /\ ~lutHit /\ HasLines(s1)
           THEN /\ self' = [s1 EXCEPT !.current_image = img]
                /\ stack' = Goto("y2733")
           ELSE /\ stack' = Popped
                /\ \E id \in PixmapIds :
                     LET raw == IF LutActive(s1)
                                THEN IF lutHit
                                     THEN [s |-> s1, out |-> Get(s1.lut_process_cache, lk)]
                                     ELSE ApplyFastEnhancements(s1, BasePixmap(img), id)
                                ELSE IF s1.grayscale_value > 0
                                THEN ApplyFastEnhancements(s1, BasePixmap(img), id)
                                ELSE [s |-> s1, out |-> BasePixmap(img)]
                         out == Transformed(raw.s, raw.out)
                     IN  self' =
                           IF enhHit
                           THEN [s1 EXCEPT !.pixmap = Get(s1.enhancement_cache, ek),
                                           !.current_image = img]
                           ELSE [raw.s EXCEPT
                                   !.enhancement_cache =
                                       ManageCache(raw.s.enhancement_cache, ek, out),
                                   !.pixmap = out, !.current_image = img]

\* lines present, nothing cached: the preview between the two yields
DisplayImage_LinesPreview ==
    /\ Running("display_image", "y2733")
    /\ \E id \in PixmapIds :
         LET e == ApplyFastEnhancements(self, BasePixmap(Top.arg), id)
         IN  self' = [e.s EXCEPT !.pixmap = Transformed(e.s, e.out)]
    /\ stack' = Goto("y2745")
    /\ UNCHANGED <<heap, pending, inputs, disk>>

DisplayImage_Submit ==
    /\ Running("display_image", "y2745")
    /\ stack' = Call("ret", Frame("start_async", 0))
    /\ UNCHANGED <<self, heap, pending, inputs, disk>>

(* ---------------- show_next_image / show_previous_image ---------------- *)
\* _display_image_with_lut_preview(img_path), then current_image = img_path
ShowNextImage_Start ==
    /\ Running("show_next_image", "start")
    /\ IF self.current_lut # None /\ self.lut_strength > 0
       THEN /\ self' = [self EXCEPT !.current_image = Top.arg]
            /\ stack' = Goto("y5553")
       ELSE /\ self' = self
            /\ stack' = Call("set_current", Frame("display_image", Top.arg))
    /\ UNCHANGED <<heap, pending, inputs, disk>>

ShowNextImage_Preview ==
    /\ Running("show_next_image", "y5553")
    /\ \E direct \in GpuChoices(self,
                               PreviewPixels(Top.arg, PreviewSizeImage(self, Top.arg)),
                               100000, 30000),
          id \in PixmapIds :
         self' = FastPreview(self, Top.arg, direct, id)
    /\ stack' = Goto("y5642")
    /\ UNCHANGED <<heap, pending, inputs, disk>>

\* QTimer.singleShot(15, _apply_full_quality_to_current_image), return to
\* the caller, which assigns current_image
ShowNextImage_Schedule ==
    /\ Running("show_next_image", "y5642")
    /\ pending' = [pending EXCEPT !.image = @ + 1]
    /\ self' = [self EXCEPT !.current_image = Top.arg]
    /\ stack' = Popped
    /\ UNCHANGED <<heap, inputs, disk>>

ShowNextImage_SetCurrent ==
    /\ Running("show_next_image", "set_current")
    /\ self' = [self EXCEPT !.current_image = Top.arg]
    /\ stack' = Popped
    /\ UNCHANGED <<heap, pending, inputs, disk>>

(* ---------------- apply_selected_lut ---------------- *)
\* the end of apply_selected_lut as it would be without the instant preview
SelectedLutTailNoPreview(s) ==
    /\ self' = [s EXCEPT !.enhancement_cache = <<>>, !.lut_process_cache = <<>>,
                         !.last_processed_image = NoBuf,
                         !.last_processed_has_lut = FALSE]
    /\ stack' = Popped
    /\ pending' = IF s.current_image # None
                  THEN [pending EXCEPT !.lut = @ + 1] ELSE pending

\* the part of apply_selected_lut after the LUT has been chosen: clear the
\* caches, then preview and schedule the full-quality pass
SelectedLutTail(s) ==
    LET s1 == [s EXCEPT !.enhancement_cache = <<>>, !.lut_process_cache = <<>>,
                        !.last_processed_image = NoBuf,
                        !.last_processed_has_lut = FALSE]
    IN  IF s1.current_image # None /\ s1.current_lut # None
        THEN /\ self' = [s1 EXCEPT !.lut_message = "Applying LUT"]
             /\ stack' = Goto("y4909")
             /\ pending' = pending
        ELSE /\ self' = s1
             /\ stack' = Popped
             /\ pending' = IF s1.current_image # None
                           THEN [pending EXCEPT !.lut = @ + 1] ELSE pending

\* the LUT found in self.lut_cache or returned by load_cube_lut
LutSelected(s, path, message) ==
    [s EXCEPT !.current_lut = path, !.current_lut_name = path,
              !.lut_enabled = TRUE, !.lut_message = message]

\* the failure branch as it would be if the None returned by load_cube_lut
\* were not assigned to self.current_lut
LutFailedKeepsLut(s) ==
    [s EXCEPT !.current_lut_name = None, !.lut_enabled = FALSE,
              !.lut_message = "Failed to load LUT"]

\* the failure branch as it would be without `self.lut_enabled = False`
LutFailedStaysEnabled(s) ==
    [s EXCEPT !.current_lut = None, !.current_lut_name = None,
              !.lut_message = "Failed to load LUT"]

\* load_cube_lut returned None
LutFailed(s) ==
    [s EXCEPT !.current_lut = None, !.current_lut_name = None,
              !.lut_enabled = FALSE, !.lut_message = "Failed to load LUT"]

ApplySelectedLut_Start ==
    /\ Running("apply_selected_lut", "start")
    /\ UNCHANGED <<heap, inputs, disk>>
    /\ IF Top.arg = None
       THEN SelectedLutTail([self EXCEPT !.current_lut = None,
                                         !.current_lut_name = None,
                                         !.lut_enabled = FALSE,
                                         !.lut_message = "LUT disabled"])
       ELSE /\ self' = [self EXCEPT !.lut_message = "Loading LUT"]
            /\ stack' = Goto("y4836")
            /\ pending' = pending

\* after the first processEvents: the LUT cache, else load_cube_lut up to
\* its own processEvents
ApplySelectedLut_Load ==
    /\ Running("apply_selected_lut", "y4836")
    /\ UNCHANGED <<heap, inputs, disk>>
    /\ IF Top.arg \in Keys(self.lut_cache)
       THEN SelectedLutTail(LutSelected(self, Top.arg, "LUT loaded (cached)"))
       ELSE LET r == LoadCubeLutEnter(self, disk[Top.arg], Top.arg)
            IN  IF r.out = "yield"
                THEN /\ self' = r.s
                     /\ stack' = Goto("y3066")
                     /\ pending' = pending
                ELSE SelectedLutTail(LutFailed(r.s))

\* load_cube_lut after its processEvents, then the LUT is stored in
\* self.lut_cache once more by apply_selected_lut
ApplySelectedLut_Loaded ==
    /\ Running("apply_selected_lut", "y3066")
    /\ UNCHANGED <<heap, inputs, disk>>
    /\ LET r == LoadCubeLutParse(self, disk[Top.arg], Top.arg)
       IN  IF r.lut # NoLut
           THEN SelectedLutTail(LutSelected(
                    [r.s EXCEPT !.lut_cache = Put(@, Top.arg, r.lut)],
                    Top.arg, "LUT loaded"))
           ELSE SelectedLutTail(LutFailed(r.s))

\* _create_fast_lut_preview in apply_selected_lut and update_lut_strength
CreateFastLutPreview ==
    /\ stack # <<>> /\ Top.pc \in {"y4909", "y5815"}
    /\ UNCHANGED <<heap, inputs, disk>>
    /\ IF self.current_image = None \/ self.current_lut = None
       THEN /\ pending' = [pending EXCEPT !.lut = @ + 1]
            /\ stack' = Popped
            /\ self' = self
       ELSE /\ \E direct \in GpuChoices(self,
                                       PreviewPixels(self.current_image,
                                           PreviewSizeLut(self, self.current_image)),
                                       GpuThreshold, GpuThresholdLines),
                  id \in PixmapIds :
                 self' = FastPreview(self, self.current_image, direct, id)
            /\ stack' = Goto("y5083")
            /\ pending' = pending

\* QTimer.singleShot(10, self._apply_full_quality_lut)
ScheduleFullQuality ==
    /\ stack # <<>> /\ Top.pc = "y5083"
    /\ pending' = [pending EXCEPT !.lut = @ + 1]
    /\ stack' = Popped
    /\ UNCHANGED <<self, heap, inputs, disk>>

(* ---------------- update_lut_strength ---------------- *)
UpdateLutStrength_Start ==
    /\ Running("update_lut_strength", "start")
    /\ UNCHANGED <<heap, pending, inputs, disk>>
    /\ LET s1 == [self EXCEPT !.lut_strength = Top.arg,
                              !.enhancement_cache = <<>>,
                              !.lut_process_cache = <<>>,
                              !.last_processed_image = NoBuf,
                              !.last_processed_has_lut = FALSE]
       IN  /\ self' = s1
           /\ stack' =
                IF s1.lut_enabled /\ s1.current_image # None /\ s1.current_lut # None
                   /\ Top.arg > 0
                THEN Goto("y5815")
                ELSE IF s1.current_image # None
                THEN Call("ret", Frame("display_image", s1.current_image))
                ELSE Popped

(* ---------------- the single-shot callbacks ---------------- *)
ApplyFullQualityLut_Start ==
    /\ Running("apply_full_quality_lut", "start")
    /\ stack' = IF self.current_image = None \/ self.current_lut = None
                THEN Popped ELSE Goto("y5099")
    /\ UNCHANGED <<self, heap, pending, inputs, disk>>

ApplyFullQualityLut_Submit ==
    /\ Running("apply_full_quality_lut", "y5099")
    /\ stack' = Call("ret", Frame("start_async", 0))
    /\ UNCHANGED <<self, heap, pending, inputs, disk>>

SingleShotFullQuality ==
    /\ CanDispatch
    /\ pending.lut > 0
    /\ pending' = [pending EXCEPT !.lut = @ - 1]
    /\ stack' = Append(stack, Frame("apply_full_quality_lut", 0))
    /\ UNCHANGED <<self, heap, inputs, disk>>

\* _apply_full_quality_to_current_image
SingleShotCurrentImage ==
    /\ CanDispatch
    /\ pending.image > 0
    /\ pending' = [pending EXCEPT !.image = @ - 1]
    /\ stack' = IF self.current_image # None
                THEN Append(stack, Frame("display_image", self.current_image))
                ELSE stack
    /\ UNCHANGED <<self, heap, inputs, disk>>

(* ---------------- _smart_zoom_display ---------------- *)
SmartZoomDisplay(s, id) ==
    IF s.current_image = None THEN s
    ELSE IF s.last_processed_image # NoBuf
            /\ (s.lut_enabled \/ ~s.last_processed_has_lut)
    THEN [s EXCEPT !.pixmap = Transformed(s, s.last_processed_image)]
    ELSE IF LutActive(s) /\ GetLutCacheKey(s) \in Keys(s.lut_process_cache)
    THEN [s EXCEPT !.pixmap =
             Transformed(s, Get(s.lut_process_cache, GetLutCacheKey(s)))]
    ELSE LET e1 == IF s.grayscale_value # 0
                   THEN ApplyFastEnhancements(s, BasePixmap(s.current_image), id)
                   ELSE [s |-> s, out |-> BasePixmap(s.current_image)]
             e2 == IF LutActive(e1.s)
                   THEN ApplyLutToImage(e1.s, e1.out, e1.s.current_lut,
                                        e1.s.current_lut, e1.s.lut_strength, id)
                   ELSE e1
         IN  [e2.s EXCEPT !.pixmap = Transformed(e2.s, e2.out)]

(* ---------------- user input ---------------- *)
\* a user input arrives and its handler starts
Input(f) ==
    /\ CanDispatch
    /\ inputs < MaxUserEvents
    /\ inputs' = inputs + 1
    /\ stack' = Append(stack, f)
    /\ UNCHANGED <<heap, pending, disk>>

\* a handler that changes attributes and then calls display_image
Redisplay(s) ==
    /\ s.current_image # None
    /\ self' = [s EXCEPT !.quiet = FALSE]
    /\ Input(Frame("display_image", s.current_image))

UserShowNextImage ==
    \E i \in Images :
        /\ Input(Frame("show_next_image", i))
        /\ self' = [self EXCEPT !.quiet = FALSE]

\* lut_combo.currentTextChanged
UserApplySelectedLut ==
    \E l \in DOMAIN disk \cup {None} :
        /\ l # self.current_lut_name
        /\ Input(Frame("apply_selected_lut", l))
        /\ self' = [self EXCEPT !.quiet = FALSE]

\* lut_strength_slider.valueChanged
UserUpdateLutStrength ==
    \E v \in Strengths :
        /\ v # self.lut_strength
        /\ Input(Frame("update_lut_strength", v))
        /\ self' = [self EXCEPT !.quiet = FALSE]

\* rotate_image_90
UserRotate ==
    Redisplay([self EXCEPT !.rotation_angle = (@ + 90) % 360,
                           !.enhancement_cache = <<>>])

\* flip_horizontal
UserFlipHorizontal ==
    Redisplay([self EXCEPT !.flipped_h = ~@, !.enhancement_cache = <<>>])

\* update_grayscale
UserUpdateGrayscale ==
    \E g \in Grays :
        /\ g # self.grayscale_value
        /\ Redisplay([self EXCEPT !.grayscale_value = g,
                                  !.enhancement_cache = <<>>])

\* toggle_line_visibility
UserToggleLineVisibility ==
    Redisplay([self EXCEPT !.lines_visible = ~@, !.lut_process_cache = <<>>,
                           !.enhancement_cache = <<>>])

\* add_line: a click in line drawing mode; the overlay is drawn over the
\* pixmap on display
UserAddLine ==
    /\ CanDispatch
    /\ inputs < MaxUserEvents
    /\ self.drawn_lines < MaxLines
    /\ self.current_image # None
    /\ inputs' = inputs + 1
    /\ self' = [self EXCEPT !.drawn_lines = @ + 1, !.lut_process_cache = <<>>,
                            !.enhancement_cache = <<>>, !.quiet = FALSE]
    /\ UNCHANGED <<heap, stack, pending, disk>>

\* zoom_in / zoom_out / reset_zoom / wheel / resize
UserZoom ==
    /\ CanDispatch
    /\ inputs < MaxUserEvents
    /\ self.current_image # None
    /\ inputs' = inputs + 1
    /\ \E id \in PixmapIds :
         self' = [SmartZoomDisplay(self, id) EXCEPT !.quiet = FALSE]
    /\ UNCHANGED <<heap, stack, pending, disk>>

Next ==
    \/ UserShowNextImage \/ UserApplySelectedLut \/ UserUpdateLutStrength
    \/ UserRotate \/ UserFlipHorizontal \/ UserUpdateGrayscale
    \/ UserToggleLineVisibility \/ UserAddLine \/ UserZoom
    \/ TimerTick \/ SingleShotFullQuality \/ SingleShotCurrentImage
    \/ ShowNextImage_Start \/ ShowNextImage_Preview
    \/ ShowNextImage_Schedule \/ ShowNextImage_SetCurrent
    \/ ApplySelectedLut_Start \/ ApplySelectedLut_Load
    \/ ApplySelectedLut_Loaded \/ CreateFastLutPreview \/ ScheduleFullQuality
    \/ UpdateLutStrength_Start
    \/ ApplyFullQualityLut_Start \/ ApplyFullQualityLut_Submit
    \/ DisplayImage_Start \/ DisplayImage_LinesPreview \/ DisplayImage_Submit
    \/ StartAsync_Start \/ StartAsync_GpuFinalize \/ StartAsync_StartTimer
    \/ Chunk_Start \/ Chunk_Continue
    \/ Return

Spec == Init /\ [][Next]_vars

(* ---------------- load_cube_lut on its own ---------------- *)
\* load_cube_lut called file after file, with nothing else going on.  The
\* paths 1 .. LutCacheMax + 1 hold well-formed files; the file at Subject
\* is any file of CubeFiles.
Subject == LutCacheMax + 2
DeclaredSizes == {0, 1, 2, MaxLutSize + 1}
RowRuns == {Rows(1), Rows(7), Rows(8),
            Rows(DefaultLutSize * DefaultLutSize * DefaultLutSize - 1),
            ShortRow, OneFieldRow, TextRow}
Headers == {<<>>, <<SizeLineNotInt>>} \cup {<<SizeLine(v)>> : v \in DeclaredSizes}
Bodies == UNION {[1..k -> RowRuns] : k \in 0..MaxRuns}
CubeFiles ==
    {CubeFile("ok", <<Comment, Title>> \o h \o <<DomainMin>> \o b) :
        h \in Headers, b \in Bodies}
    \cup {CubeFile(io, GoodCube.lines) : io \in {"missing", "big", "unreadable"}}

\* the paths handed to load_cube_lut: the first and the last of the files
\* loaded earlier, a well-formed file not loaded yet, and Subject
LoadPaths == {1, LutCacheMax, LutCacheMax + 1, Subject}

\* how many files were loaded before: none, one short of a full cache, a
\* full cache
PreloadCounts == {0, LutCacheMax - 1, LutCacheMax}

\* self.lut_cache after the files 1 .. k have been loaded in that order
Preloaded(k) ==
    [i \in 1..k |-> [key |-> i, val |-> ParseCube(GoodCube, i).lut]]

LoadInit ==
    /\ \E k \in PreloadCounts :
         self = [Constructed(FALSE) EXCEPT
                   !.lut_cache = Preloaded(k),
                   !.lut_message = IF k = 0 THEN "" ELSE "LUT loaded"]
    /\ \E f \in CubeFiles :
         disk = [p \in 1..Subject |-> IF p = Subject THEN f ELSE GoodCube]
    /\ heap = [j \in Jobs |-> NoJob]
    /\ stack = <<>>
    /\ pending = [lut |-> 0, image |-> 0]
    /\ inputs = 0

\* load_cube_lut(path) is called
CallLoadCubeLut ==
    /\ stack = <<>>
    /\ inputs < MaxLoads
    /\ inputs' = inputs + 1
    /\ \E path \in LoadPaths : stack' = <<Frame("load_cube_lut", path)>>
    /\ UNCHANGED <<self, heap, pending, disk>>

\* the call runs to its processEvents, or returns before
LoadCubeLut_Enter ==
    /\ Running("load_cube_lut", "start")
    /\ LET r == LoadCubeLutEnter(self, disk[Top.arg], Top.arg)
       IN  /\ self' = r.s
           /\ stack' = IF r.out = "yield" THEN Goto("y3066") ELSE Popped
    /\ UNCHANGED <<heap, pending, inputs, disk>>

\* the call goes on after its processEvents and returns
LoadCubeLut_Parse ==
    /\ Running("load_cube_lut", "y3066")
    /\ self' = LoadCubeLutParse(self, disk[Top.arg], Top.arg).s
    /\ stack' = Popped
    /\ UNCHANGED <<heap, pending, inputs, disk>>

LoadNext == CallLoadCubeLut \/ LoadCubeLut_Enter \/ LoadCubeLut_Parse

LoadSpec == LoadInit /\ [][LoadNext]_vars

(* ---------------- the transform and its backends on their own ---------- *)
\* An image is on display with a LUT selected; full-quality requests
\* (_start_async_lut_processing) and synchronous transforms
\* (apply_lut_to_image on the current image) are made from the event loop,
\* and the timer ticks in between.  No other input arrives.
FallbackInit ==
    /\ \E g \in BOOLEAN, i \in Images, v \in Strengths \ {0}, n \in 0..MaxLines :
         self = [Constructed(g) EXCEPT
                   !.current_image = i, !.pixmap = BasePixmap(i),
                   !.current_lut = 1, !.current_lut_name = 1,
                   !.lut_enabled = TRUE, !.lut_strength = v,
                   !.drawn_lines = n,
                   !.lut_cache = Preloaded(1),
                   !.lut_message = "LUT loaded"]
    /\ heap = [j \in Jobs |-> NoJob]
    /\ stack = <<>>
    /\ pending = [lut |-> 0, image |-> 0]
    /\ inputs = 0
    /\ disk = [p \in Luts \cup {BadLut} |->
                 IF p \in Luts THEN GoodCube ELSE TruncatedCube]

\* _start_async_lut_processing() is called
CallStartAsync ==
    /\ stack = <<>>
    /\ inputs < MaxUserEvents
    /\ Cardinality(Used(heap)) < MaxJobs
    /\ inputs' = inputs + 1
    /\ stack' = <<Frame("start_async", 0)>>
    /\ UNCHANGED <<self, heap, pending, disk>>

\* apply_lut_to_image(pixmap of the current image, current_lut, lut_strength)
\* is called
CallApplyLutToImage ==
    /\ stack = <<>>
    /\ inputs < MaxUserEvents
    /\ inputs' = inputs + 1
    /\ stack' = <<Frame("apply_lut_to_image", 0)>>
    /\ UNCHANGED <<self, heap, pending, disk>>

\* the call up to the end of its GPU branch: a cached result is returned;
\* else the GPU is tried when there is one, and its result stored and
\* returned unless apply_lut_gpu gave None
ApplyLutToImage_Gpu ==
    /\ Running("apply_lut_to_image", "start")
    /\ UNCHANGED <<heap, pending, inputs, disk>>
    /\ LET pix == BasePixmap(self.current_image)
       IN  \E id \in PixmapIds :
             IF ApplyKey(pix, id, self.current_lut, self.lut_strength)
                  \in Keys(self.lut_process_cache)
             THEN /\ self' = self
                  /\ stack' = Popped
             ELSE \E ok \in (IF self.gpu_enabled THEN BOOLEAN ELSE {FALSE}) :
                    IF ok
                    THEN /\ self' = ApplyLutToImage(self, pix, self.current_lut,
                                         self.current_lut, self.lut_strength, id).s
                         /\ stack' = Popped
                    ELSE /\ self' = self
                         /\ stack' = Goto("cpu")

\* "FALLBACK: CPU processing when GPU is not available or fails"
ApplyLutToImage_Cpu ==
    /\ Running("apply_lut_to_image", "cpu")
    /\ \E id \in PixmapIds :
         self' = ApplyLutToImage(self, BasePixmap(self.current_image),
                     self.current_lut, self.current_lut, self.lut_strength, id).s
    /\ stack' = Popped
    /\ UNCHANGED <<heap, pending, inputs, disk>>

\* what the program does by itself, the timer included
FallbackRun ==
    \/ ApplyLutToImage_Gpu \/ ApplyLutToImage_Cpu
    \/ StartAsync_Start \/ StartAsync_GpuFinalize \/ StartAsync_StartTimer
    \/ Chunk_Start \/ Chunk_Continue \/ TimerTick

FallbackNext == CallStartAsync \/ CallApplyLutToImage \/ FallbackRun

\* a handler in progress goes on and a running timer fires
FallbackSpec == FallbackInit /\ [][FallbackNext]_vars /\ WF_vars(FallbackRun)

(* ---------------- exceptions in _process_lut_chunk ---------------- *)
\* "Stop processing on error": the except branch of _process_lut_chunk
ChunkFailed(s) ==
    [s EXCEPT !.timer_active = FALSE, !.async_processing_state = None]

\* An exception is raised in the try block of _process_lut_chunk: on entry,
\* or in the pixel loop after one of its processEvents() calls.  The job
\* it was working on is marked as failed, and the job whose state
\* dictionary the handler throws away as lost.
Chunk_Raise ==
    /\ stack # <<>> /\ Top.fn = "chunk"
    /\ \/ Top.pc = "y5304"
       \/ Top.pc = "start" /\ self.async_processing_state # None
    /\ LET j == IF Top.pc = "start" THEN self.async_processing_state
                ELSE Top.job
           h1 == [heap EXCEPT ![j].failed = TRUE]
       IN  heap' = IF self.async_processing_state = None THEN h1
                   ELSE [h1 EXCEPT ![self.async_processing_state].lost = TRUE]
    /\ self' = ChunkFailed(self)
    /\ stack' = Popped
    /\ UNCHANGED <<pending, inputs, disk>>

(* ---------------- one request at a time ---------------- *)
\* The user waits for the scheduler to be idle before the next input: no
\* event is delivered inside a processEvents() call of a handler, and none
\* while a job or a single-shot callback is outstanding.
UserInputs ==
    \/ (Idle /\ UserShowNextImage)
    \/ (Idle /\ UserApplySelectedLut)
    \/ (Idle /\ UserUpdateLutStrength)
    \/ (Idle /\ UserRotate)
    \/ (Idle /\ UserFlipHorizontal)
    \/ (Idle /\ UserUpdateGrayscale)
    \/ (Idle /\ UserToggleLineVisibility)
    \/ (Idle /\ UserAddLine)
    \/ (Idle /\ UserZoom)

\* what the program does by itself: timers, callbacks and handler steps
ProgramSteps ==
    \/ TimerTick \/ SingleShotFullQuality \/ SingleShotCurrentImage
    \/ ShowNextImage_Start \/ ShowNextImage_Preview
    \/ ShowNextImage_Schedule \/ ShowNextImage_SetCurrent
    \/ ApplySelectedLut_Start \/ ApplySelectedLut_Load
    \/ ApplySelectedLut_Loaded \/ CreateFastLutPreview \/ ScheduleFullQuality
    \/ UpdateLutStrength_Start
    \/ ApplyFullQualityLut_Start \/ ApplyFullQualityLut_Submit
    \/ DisplayImage_Start \/ DisplayImage_LinesPreview \/ DisplayImage_Submit
    \/ StartAsync_Start \/ StartAsync_GpuFinalize \/ StartAsync_StartTimer
    \/ Chunk_Start \/ Chunk_Continue
    \/ Return

SerialNext == UserInputs \/ ProgramSteps

\* the event loop keeps running: a handler in progress goes on, a running
\* timer fires and a scheduled callback is called
SerialSpec == Init /\ [][SerialNext]_vars /\ WF_vars(ProgramSteps)

(* ---------------- update_lut_strength called with any value ---------------- *)
\* values a caller may pass: the ends of the slider's range, one inside it
\* and one beyond each end
StrengthArgs == {0 - 1, 0, 50, 100, 101}

\* update_lut_strength(value) called from the event loop with any value
CallUpdateLutStrength ==
    \E v \in StrengthArgs :
        /\ v # self.lut_strength
        /\ Input(Frame("update_lut_strength", v))
        /\ self' = [self EXCEPT !.quiet = FALSE]

ArgNext == SerialNext \/ (Idle /\ CallUpdateLutStrength)

ArgSpec == Init /\ [][ArgNext]_vars

(* ---------------- chunks that fail ---------------- *)
\* no handler is running, no job is in _async_processing_state and no
\* single-shot callback is outstanding; the tick timer may still be active
NothingOutstanding ==
    /\ stack = <<>>
    /\ self.async_processing_state = None
    /\ pending.lut = 0 /\ pending.image = 0

\* User input is delivered only when nothing is outstanding, and a run of
\* _process_lut_chunk may raise.
TopLevelInputs ==
    \/ (NothingOutstanding /\ UserShowNextImage)
    \/ (NothingOutstanding /\ UserApplySelectedLut)
    \/ (NothingOutstanding /\ UserUpdateLutStrength)
    \/ (NothingOutstanding /\ UserRotate)
    \/ (NothingOutstanding /\ UserFlipHorizontal)
    \/ (NothingOutstanding /\ UserUpdateGrayscale)
    \/ (NothingOutstanding /\ UserToggleLineVisibility)
    \/ (NothingOutstanding /\ UserAddLine)
    \/ (NothingOutstanding /\ UserZoom)

FaultNext == TopLevelInputs \/ ProgramSteps \/ Chunk_Raise

FaultSpec == Init /\ [][FaultNext]_vars

(* ---------------- toggle_lut_enabled ---------------- *)
\* toggle_lut_enabled(False): the selection is switched to "None" through
\* apply_selected_lut
ToggleLutEnabled_Start ==
    /\ Running("toggle_lut_enabled", "start")
    /\ self' = [self EXCEPT !.lut_enabled = FALSE]
    /\ stack' = Call("redraw", Frame("apply_selected_lut", None))
    /\ UNCHANGED <<heap, pending, inputs, disk>>

\* "Force immediate redraw WITHOUT LUT": the caches are cleared and the
\* current image is displayed
ToggleLutEnabled_Redraw ==
    /\ Running("toggle_lut_enabled", "redraw")
    /\ self' = ClearLutCache(self)
    /\ stack' = IF self.current_image # None
                THEN Call("ret", Frame("display_image", self.current_image))
                ELSE Popped
    /\ UNCHANGED <<heap, pending, inputs, disk>>

(* ---------------- a browsing session ---------------- *)
\* A session in which the user shows the large image, selects a LUT and
\* then either draws a line and moves on to another image twice, or switches
\* the LUT off with the toggle button and does nothing more.  When an input
\* arrives, at top level or inside a processEvents call, is free, except
\* for the last move, which the user makes while display_image is drawing.
BrowseScript == <<{"show"}, {"lut"}, {"line", "toggle"}, {"show"}, {"show"}>>

\* the next input of the session is of kind k and starts the handler f
BrowseInput(k, f) ==
    /\ CanDispatch
    /\ inputs < Len(BrowseScript)
    /\ k \in BrowseScript[inputs + 1]
    /\ inputs' = inputs + 1
    /\ stack' = Append(stack, f)
    /\ self' = [self EXCEPT !.quiet = FALSE]
    /\ UNCHANGED <<heap, pending, disk>>

\* random.choice picks an image; here the first is image 2 and each later
\* one differs from the image on display
BrowseShowNextImage ==
    \E i \in Images :
        /\ i # self.current_image
        /\ inputs = 0 => i = 2
        /\ inputs = Len(BrowseScript) - 1 =>
             stack # <<>> /\ Top.fn = "display_image"
        /\ BrowseInput("show", Frame("show_next_image", i))

BrowseApplySelectedLut ==
    \E l \in Luts :
        /\ l # self.current_lut_name
        /\ BrowseInput("lut", Frame("apply_selected_lut", l))

BrowseAddLine ==
    /\ CanDispatch
    /\ inputs < Len(BrowseScript)
    /\ "line" \in BrowseScript[inputs + 1]
    /\ self.current_image # None
    /\ inputs' = inputs + 1
    /\ self' = [self EXCEPT !.drawn_lines = @ + 1, !.lut_process_cache = <<>>,
                            !.enhancement_cache = <<>>, !.quiet = FALSE]
    /\ UNCHANGED <<heap, stack, pending, disk>>

\* lut_toggle_btn.toggled: the button is checked while a LUT is selected,
\* so the click unchecks it; it is the last input of the session
BrowseToggleLutOff ==
    /\ self.current_lut_name # None
    /\ CanDispatch
    /\ inputs < Len(BrowseScript)
    /\ "toggle" \in BrowseScript[inputs + 1]
    /\ inputs' = Len(BrowseScript)
    /\ stack' = Append(stack, Frame("toggle_lut_enabled", 0))
    /\ self' = [self EXCEPT !.quiet = FALSE]
    /\ UNCHANGED <<heap, pending, disk>>

BrowseNext ==
    \/ BrowseShowNextImage \/ BrowseApplySelectedLut \/ BrowseAddLine
    \/ BrowseToggleLutOff
    \/ ToggleLutEnabled_Start \/ ToggleLutEnabled_Redraw
    \/ TimerTick \/ SingleShotFullQuality \/ SingleShotCurrentImage
    \/ ShowNextImage_Start \/ ShowNextImage_Preview
    \/ ShowNextImage_Schedule \/ ShowNextImage_SetCurrent
    \/ ApplySelectedLut_Start \/ ApplySelectedLut_Load
    \/ ApplySelectedLut_Loaded \/ CreateFastLutPreview \/ ScheduleFullQuality
    \/ ApplyFullQualityLut_Start \/ ApplyFullQualityLut_Submit
    \/ DisplayImage_Start \/ DisplayImage_LinesPreview \/ DisplayImage_Submit
    \/ StartAsync_Start \/ StartAsync_GpuFinalize \/ StartAsync_StartTimer
    \/ Chunk_Start \/ Chunk_Continue
    \/ Return

BrowseSpec == Init /\ [][BrowseNext]_vars

(* ---------------- _manage_cache on its own ---------------- *)
\* _manage_cache called again and again on self.pixmap_cache, with nothing
\* else going on.  Keys are numbered in the order of their first use;
\* heap[k] is the number of the call in which key k last entered the
\* dictionary (0: never), inputs the number of calls made, pending the
\* number of calls whose key had been used before.
ManageInit ==
    /\ self = [pixmap_cache |-> <<>>, key |-> 0, value |-> 0]
    /\ heap = [k \in 1..MaxCalls |-> 0]
    /\ inputs = 0
    /\ pending = 0
    /\ stack = <<>>
    /\ disk = <<>>

\* the max_cache_size/2 keys of dictionary d that entered it last
MostRecent(d) ==
    {k \in Keys(d) :
        Cardinality({m \in Keys(d) : heap[m] > heap[k]}) < max_cache_size \div 2}

\* key k is in dictionary d and a call of _manage_cache has no reason to
\* remove it: d is below the limit, or k is among the keys to be kept
Stays(d, k) ==
    /\ k \in Keys(d)
    /\ Len(d) < max_cache_size \/ k \in MostRecent(d)

\* self._manage_cache(self.pixmap_cache, k, v), v being the number of the call
ManageCall(k) ==
    /\ inputs < MaxCalls
    /\ inputs' = inputs + 1
    /\ self' = [pixmap_cache |-> ManageCache(self.pixmap_cache, k, inputs + 1),
                key |-> k, value |-> inputs + 1]
    /\ heap' = [heap EXCEPT ![k] = IF Stays(self.pixmap_cache, k)
                                   THEN @ ELSE inputs + 1]
    /\ UNCHANGED <<stack, disk>>

UsedKeys == {k \in 1..MaxCalls : heap[k] > 0}

\* a call with a key that was never used
ManageFresh ==
    /\ ManageCall(Cardinality(UsedKeys) + 1)
    /\ pending' = pending

\* a call with a key used before: the oldest or the newest key of the
\* dictionary, or the first key ever used, which may have been removed
ManageRepeat ==
    /\ pending < MaxRepeats
    /\ self.pixmap_cache # <<>>
    /\ \E k \in {self.pixmap_cache[1].key,
                 self.pixmap_cache[Len(self.pixmap_cache)].key, 1} :
         ManageCall(k)
    /\ pending' = pending + 1

ManageNext == ManageFresh \/ ManageRepeat

ManageSpec == ManageInit /\ [][ManageNext]_vars

(* ---------------- properties of the scheduler and the result cache ------ *)
Entries(d) == {d[i] : i \in 1..Len(d)}
LastJob == Cardinality(Used(heap))
\* job j sat in _async_processing_state when a request with another
\* signature was submitted
Discarded(j) == heap[j].cancelled /\ heap[j].superseded
\* a buffer made by a job has all its rows transformed
Complete(b) == b.kind = "full" => b.rows = Height(b.img)
\* the job in _async_processing_state has finished some chunk but not the last
MidChunk ==
    /\ self.async_processing_state # None
    /\ heap[self.async_processing_state].current_row > 0
    /\ heap[self.async_processing_state].current_row
         < heap[self.async_processing_state].total_rows

\* C1: once a job has been superseded by a request with a different
\* signature, its buffer is neither on display nor in the result cache.
C1_SupersededOutputNeverShownOrCached ==
    \A j \in Jobs :
        heap[j].superseded =>
            /\ self.pixmap.job # j
            /\ \A e \in Entries(self.lut_process_cache) : e.val.job # j

\* C2: request B was submitted while a request with another signature was
\* in flight; once the scheduler is idle again, with no input since B, the
\* result cache holds B's finished buffer under B's signature, holds no
\* buffer of a superseded job, and the display shows B's finished buffer.
C2_CancellationCorrectness ==
    (Idle /\ self.quiet /\ LastJob > 0 /\ heap[LastJob].over) =>
        LET b == heap[LastJob]
            c == self.lut_process_cache
        IN  /\ b.cache_key \in Keys(c)
            /\ Get(c, b.cache_key).job = LastJob
            /\ Complete(Get(c, b.cache_key))
            /\ \A e \in Entries(c) : e.val.job # 0 => ~heap[e.val.job].superseded
            /\ self.pixmap.img = b.img /\ self.pixmap.lut = b.lut
            /\ self.pixmap.str = b.str /\ Complete(self.pixmap)

\* C3: the buffer of a chunked job is never cached under a signature that
\* names another image than the one the job transformed.
C3_ImageChangeSupersedes ==
    \A e \in Entries(self.lut_process_cache) :
        (e.key.kind = "sig" /\ e.val.job # 0 /\ ~heap[e.val.job].gpu) =>
            e.val.img = e.key.img

\* C4: a finished buffer sits in the result cache under the signature that
\* was recorded when its job was submitted.
C4_FinalizeStoresUnderSubmittedSignature ==
    \A e \in Entries(self.lut_process_cache) :
        (e.key.kind = "sig" /\ e.val.job # 0) =>
            e.key = heap[e.val.job].cache_key

\* C5: no job is ever started while a job with the same signature sits in
\* _async_processing_state: the duplicate submit leaves the state alone.
C5_DuplicateSubmitIsNoOp ==
    \A j \in Jobs : heap[j].sup # "same"

\* C6: when a submit with a different signature has replaced the state of a
\* running job, the state in place as the first chunk starts belongs to the
\* new request, carries its signature and has no row transformed; and the
\* buffer of a discarded job is not in _async_processing_state, not in
\* _final_processing_state and not in the result cache.
C6_DifferentSubmitDiscardsAndRestarts ==
    /\ (Running("chunk", "start") /\ ~Top.tick /\ heap[LastJob].sup = "diff") =>
           /\ self.async_processing_state = LastJob
           /\ heap[LastJob].cache_key = GetLutCacheKey(self)
           /\ heap[LastJob].current_row = 0
           /\ heap[LastJob].rows = 0
           /\ \E a \in Jobs : a # LastJob /\ Discarded(a)
    /\ \A a \in Jobs :
           Discarded(a) =>
               /\ self.async_processing_state # a
               /\ self.final_processing_state.job # a
               /\ \A e \in Entries(self.lut_process_cache) : e.val.job # a

\* C6 witness: a discarded job whose chunk, still on the stack when it was
\* discarded, went on to transform its last row.
C6_Witness ==
    \E a \in Jobs :
        /\ Discarded(a)
        /\ heap[a].current_row = heap[a].total_rows
        /\ self.lut_process_cache # <<>>

\* C7: while a chunk is suspended at its yield, no other chunk is running.
C7_NoConcurrentTransforms ==
    \A m, n \in 1..Len(stack) :
        (m < n /\ stack[m].fn = "chunk" /\ stack[m].pc = "y5304") =>
            ~(stack[n].fn = "chunk" /\ stack[n].job # 0)

\* C8: no job is started for a request whose finished buffer, made by the
\* previous job with no input since, is in the result cache.
C8_CacheHitAvoidsRecomputation ==
    \A j \in Jobs : ~heap[j].hit

\* C9: when display_image is about to look up the result cache for the
\* current request, an entry under the request's signature was made with
\* the request's LUT, rotation and flip.
C9_SignatureCoversLutAndGeometry ==
    (/\ Running("display_image", "start")
     /\ Top.arg = self.current_image
     /\ LutActive(self)
     /\ EnhKey(self, Top.arg) \notin Keys(self.enhancement_cache)
     /\ GetLutCacheKey(self) \in Keys(self.lut_process_cache)) =>
        LET b == Get(self.lut_process_cache, GetLutCacheKey(self))
        IN  /\ b.lut = self.current_lut
            /\ b.rot = self.rotation_angle
            /\ b.fh = self.flipped_h

\* C10: no step stores an entry in the result cache while the job in
\* _async_processing_state is between two chunks or inside a later chunk.
C10_ResultCacheWrittenOnlyAtCompletion ==
    [][(\E e \in Entries(self'.lut_process_cache) :
            e \notin Entries(self.lut_process_cache)) => ~MidChunk]_vars

(* ---------------- properties of load_cube_lut and self.lut_cache -------- *)
\* the lines of a file that hold at least three tokens and are no metadata
RECURSIVE DataRowCount(_)
DataRowCount(lines) ==
    IF lines = <<>> THEN 0
    ELSE (IF Head(lines).kind = "row" /\ Head(lines).fields >= 3
          THEN Head(lines).n ELSE 0) + DataRowCount(Tail(lines))

\* the messages load_cube_lut leaves when it returns None
LoadFailures == {"Error loading LUT", "LUT file too large", "LUT size too large",
                 "Error parsing LUT", "Invalid LUT format"}

\* a call of load_cube_lut is at the program point pc
Loading(pc) == Running("load_cube_lut", pc)

\* C12: the file at Subject, declaring a size of 2 or more, is in the LUT
\* cache only if the number of its data rows is the cube of that size; a
\* file with rows missing or rows to spare is rejected and not cached.
C12_WrongRowCountRejected ==
    (Subject \in Keys(self.lut_cache) /\ Get(self.lut_cache, Subject).size >= 2) =>
        LET n == Get(self.lut_cache, Subject).size
        IN  DataRowCount(disk[Subject].lines) = n * n * n

\* C13: the file at Subject, declaring a size of 2 or more, is in the LUT
\* cache only if none of its data lines has fewer than three fields.
C13_ShortRowRejected ==
    (Subject \in Keys(self.lut_cache) /\ Get(self.lut_cache, Subject).size >= 2) =>
        \A i \in 1..Len(disk[Subject].lines) :
            IsDataLine(disk[Subject].lines[i]) =>
                disk[Subject].lines[i].fields >= 3

\* C14: every LUT in the LUT cache has a size from 2 to 256 and as many
\* samples as the cube of its size, and a file that declares no
\* LUT_3D_SIZE is not cached.
C14_CachedLutsAreValid ==
    /\ \A e \in Entries(self.lut_cache) :
           /\ 2 <= e.val.size /\ e.val.size <= MaxLutSize
           /\ e.val.len = e.val.size * e.val.size * e.val.size
    /\ Subject \in Keys(self.lut_cache) => SizeLines(disk[Subject].lines) # <<>>

\* C15: the LUT cache never holds more than 10 LUTs; a call answered from
\* the cache leaves it as it was, order included; a successful load of a
\* file not yet cached appends it and, when the cache was full, removes the
\* entry inserted earliest and no other; after a successful load the file
\* just loaded is in the cache; and nothing else changes the cache.
C15_LutCacheBoundedInsertionOrder ==
    /\ [](Len(self.lut_cache) <= LutCacheMax)
    /\ [][LET c == self.lut_cache
              d == self'.lut_cache
              loaded == Loading("y3066") /\ self'.lut_message = "LUT loaded"
          IN  /\ (Loading("start") /\ Top.arg \in Keys(c)) => d = c
              /\ loaded =>
                    /\ Top.arg \in Keys(d)
                    /\ Top.arg \notin Keys(c) =>
                          /\ d[Len(d)].key = Top.arg
                          /\ SubSeq(d, 1, Len(d) - 1)
                               = IF Len(c) < LutCacheMax THEN c ELSE Tail(c)
              /\ d # c => loaded]_vars

\* C15 witness: the cache is full, its earliest entry has been removed and
\* the file loaded last is its newest entry.
C15_Witness ==
    /\ stack = <<>>
    /\ Len(self.lut_cache) = LutCacheMax
    /\ self.lut_cache[1].key # 1
    /\ self.lut_cache[LutCacheMax].key = Subject
    /\ self.lut_message = "LUT loaded from cache"

\* C16: a call of load_cube_lut for a file that an earlier call has loaded
\* returns from the cache: it does not reach the parse, it returns what
\* parsing the unchanged file returns, and it leaves the cache as it was.
C16_LoadIdempotent ==
    [][(Loading("start") /\ Top.arg \in Keys(self.lut_cache)) =>
          /\ stack' = Popped
          /\ self'.lut_message = "LUT loaded from cache"
          /\ LoadCubeLutEnter(self, disk[Top.arg], Top.arg).lut
               = ParseCube(disk[Top.arg], Top.arg).lut
          /\ self'.lut_cache = self.lut_cache]_vars

\* C16 witness: the file at Subject was loaded and a second call for it has
\* returned from the cache.
C16_Witness ==
    /\ stack = <<>>
    /\ inputs = 2
    /\ self.lut_message = "LUT loaded from cache"
    /\ Keys(self.lut_cache) = {Subject}

\* C17: a call of load_cube_lut that returns None leaves the LUT cache as
\* it was when the call began.
C17_FailedLoadLeavesCache ==
    [][/\ Loading("start") => self'.lut_cache = self.lut_cache
       /\ (stack # <<>> /\ Top.fn = "load_cube_lut" /\ stack' = Popped
           /\ self'.lut_message \in LoadFailures) =>
              self'.lut_cache = self.lut_cache]_vars

\* C17 witness: a file with a wrong number of rows was refused while the
\* cache was full.
C17_Witness ==
    /\ stack = <<>>
    /\ self.lut_message = "Invalid LUT format"
    /\ Len(self.lut_cache) = LutCacheMax

(* ---------------- properties of a failed LUT selection ---------------- *)
\* the frame on top of the stack takes a step of its own (no event is
\* dispatched on top of it)
OwnStep == stack' # stack /\ Len(stack') <= Len(stack)

\* apply_selected_lut is about to learn that its file does not load
LoadFails ==
    /\ stack # <<>> /\ Top.fn = "apply_selected_lut"
    /\ \/ /\ Top.pc = "y4836"
          /\ Top.arg \notin Keys(self.lut_cache)
          /\ LoadCubeLutEnter(self, disk[Top.arg], Top.arg).out = "none"
       \/ /\ Top.pc = "y3066"
          /\ LoadCubeLutParse(self, disk[Top.arg], Top.arg).lut = NoLut

FailedMessage == self.lut_message = "Failed to load LUT"

\* C18: when apply_selected_lut fails to load the chosen LUT it returns
\* without a preview and without starting a job, shows a status message and
\* leaves the displayed pixmap as it was; the full-quality callback it
\* scheduled, running while no LUT is loaded, returns at once and changes
\* nothing.
C18_FailedLoadAbortsRequest ==
    [][/\ (LoadFails /\ OwnStep) =>
            /\ stack' = Popped
            /\ self'.lut_message = "Failed to load LUT"
            /\ self'.pixmap = self.pixmap
            /\ heap' = heap
            /\ self'.async_processing_state = self.async_processing_state
            /\ self'.final_processing_state = self.final_processing_state
       /\ (Running("apply_full_quality_lut", "start") /\ self.current_lut = None) =>
            /\ stack' = Popped
            /\ self' = self
            /\ heap' = heap]_vars

\* the callback of a failed selection is about to run while the image on
\* display still carries the LUT chosen before
C18_Witness ==
    /\ Running("apply_full_quality_lut", "start")
    /\ FailedMessage
    /\ self.current_lut = None
    /\ self.pixmap.lut # None

GpuTried(j) ==
    /\ self.gpu_enabled
    /\ Width(heap[j].img) * Height(heap[j].img) >
         (IF heap[j].chunk_size = ChunkRowsLines THEN GpuThresholdLines
          ELSE GpuThreshold)

\* ... and apply_lut_gpu failed, so that job j went to the CPU
FellBack(j) == heap[j].used /\ ~heap[j].gpu /\ GpuTried(j)

\* job j's image, every row transformed by the chunks, is on display
ShownByCpu(j) ==
    /\ self.pixmap.kind = "full" /\ self.pixmap.job = j
    /\ self.pixmap.rows = Height(heap[j].img)
    /\ heap[j].current_row = heap[j].total_rows
    /\ ~heap[j].gpu

\* C11: when apply_lut_gpu fails in _start_async_lut_processing the request
\* becomes a CPU job at once and, unless a later request replaces it, its
\* image is eventually on display with every row transformed by the
\* chunks; when it fails in apply_lut_to_image the same call goes on with
\* the CPU and returns the transformed pixmap.
C11_GpuFailureFallsBackToCpu ==
    /\ [][\A j \in Jobs : (~heap[j].used /\ FellBack(j)') =>
            /\ self'.async_processing_state = j
            /\ Top.fn = "start_async"
            /\ stack' = Call("after_chunk", Frame("chunk", 0))]_vars
    /\ \A j \in Jobs :
         (FellBack(j) /\ self.async_processing_state = j)
            ~> (ShownByCpu(j) \/ heap[j].cancelled)
    /\ [][Running("apply_lut_to_image", "cpu") =>
            /\ stack' = Popped
            /\ self'.last_processed_image =
                  LutApplied(BasePixmap(self.current_image), "sync",
                             self.current_lut, self.lut_strength)]_vars
    /\ Running("apply_lut_to_image", "cpu") ~>
         (stack = <<>> /\ self.last_processed_image.lut = self.current_lut)

\* a job that went to the CPU after the GPU failed has its image on display
C11_Witness ==
    /\ \E j \in Jobs : FellBack(j) /\ ShownByCpu(j)
    /\ self.last_processed_image.lut = self.current_lut
    /\ stack = <<>>

(* ---------------- properties of the order of the phases ---------------- *)
\* the preview of the current image under the current LUT and strength
IsPreview(b) ==
    /\ b.kind = "preview"
    /\ b.img = self.current_image
    /\ b.lut = self.current_lut
    /\ b.str = self.lut_strength

\* _start_async_lut_processing, called by _apply_full_quality_lut, is about
\* to start a job
FullQualityStarts ==
    /\ Running("start_async", "start")
    /\ Len(stack) >= 2 /\ stack[Len(stack) - 1].fn = "apply_full_quality_lut"
    /\ Used(heap') # Used(heap)

\* C20: for a LUT selection or strength change made while the scheduler is
\* idle, the preview is on display when the full-quality job starts; a job
\* leaves _async_processing_state only in a run of _process_lut_chunk that
\* left current_row >= total_rows, which also finalizes it; and a job in
\* progress leads to the scheduler being idle again.
C20_SchedulerOrdering ==
    /\ [][FullQualityStarts => IsPreview(self.pixmap)]_vars
    /\ [][\A j \in Jobs :
            (self.async_processing_state = j /\ self'.async_processing_state # j) =>
               /\ Top.fn = "chunk"
               /\ heap'[j].current_row >= heap'[j].total_rows
               /\ self'.async_processing_state = None
               /\ self'.final_processing_state = NoBuf]_vars
    /\ (self.async_processing_state # None) ~> Idle

\* the scheduler is idle again after a job in chunks whose request was a
\* LUT selection or a strength change: the job's image is on display
C20_Witness ==
    /\ Idle
    /\ self.pixmap.kind = "full"
    /\ ~heap[self.pixmap.job].gpu
    /\ heap[self.pixmap.job].current_row = heap[self.pixmap.job].total_rows
    /\ heap[self.pixmap.job].chunk_size = ChunkRows

(* ---------------- the arithmetic of the transforms ---------------- *)
\* The transforms compute in floating point; here every quantity is an exact
\* fraction.  A channel byte v stands for v / 255.0, a LUT sample is a
\* multiple of 1 / LutUnit and strength_factor a multiple of 1 / StrengthDen.
ByteMax == 255
LutUnit == 2
StrengthDen == 2

\* strength / 100.0, in units of 1 / StrengthDen, for the values in Strengths
StrengthFactor(v) == v \div (100 \div StrengthDen)

\* the bytes of a pixel in memory: blue, green, red and the 4th byte
B == 1
G == 2
R == 3
A == 4

\* image.convertToFormat(Format_RGB32): 0xffRRGGBB, the 4th byte is 0xff
ConvertToFormatRGB32(image) ==
    [y \in DOMAIN image |->
        [x \in DOMAIN image[y] |->
            <<image[y][x][B], image[y][x][G], image[y][x][R], ByteMax>>]]

\* a data row of a .cube file with its three numbers, in units of 1 / LutUnit
ValueRow(t) ==
    [kind |-> "row", n |-> 1, val |-> 0, fields |-> 3, space |-> TRUE,
     numeric |-> TRUE, vals |-> t]

\* lut_data as the loop over data_lines builds it: rows of fewer than three
\* tokens are passed over, each other row is appended, and the loop stops
\* when the list holds `expected` triples
RECURSIVE ParseData(_, _, _)
ParseData(rows, data, expected) ==
    IF rows = <<>> THEN data
    ELSE LET r == Head(rows) IN
         IF r.fields < 3 THEN ParseData(Tail(rows), data, expected)
         ELSE LET d1 == Append(data, r.vals)
              IN  IF Len(d1) >= expected THEN d1
                  ELSE ParseData(Tail(rows), d1, expected)

\* the dictionary load_cube_lut returns, with its 'data'; size 0 for None
NoLutData == [size |-> 0, data |-> <<>>]
LoadCubeData(f, path) ==
    LET lut == ParseCube(f, path).lut
    IN  IF lut = NoLut THEN NoLutData
        ELSE [size |-> lut.size,
              data |-> ParseData(DataLines(f.lines), <<>>,
                                 lut.size * lut.size * lut.size)]

\* r * (lut_size - 1) for r = v / 255.0, over ByteMax
Scaled(v, n) == v * (n - 1)
\* r_low, r_high and r_frac (over ByteMax) of _interpolate_lut_quality
LowIndex(v, n) == Max(0, Min(Scaled(v, n) \div ByteMax, n - 1))
HighIndex(v, n) == Min(LowIndex(v, n) + 1, n - 1)
Frac(v, n) == Scaled(v, n) - LowIndex(v, n) * ByteMax

\* get_lut_value as it would be with blue changing fastest
GetLutValueBlueFastest(lut, ri, gi, bi) ==
    lut.data[bi + gi * lut.size + ri * lut.size * lut.size + 1]

\* get_lut_value.  The index is within the list for every dictionary
\* load_cube_lut returns (len(lut_data) = lut_size ** 3 and 0 <= ri, gi, bi
\* < lut_size), so the fallback to the pixel's own colour is never taken.
GetLutValue(lut, ri, gi, bi) ==
    lut.data[ri + gi * lut.size + bi * lut.size * lut.size + 1]

\* lerp as it would be if it returned its first argument
LerpNearest(a, b, t) == [i \in 1..3 |-> a[i] * ByteMax]

\* lerp(a, b, t) = a * (1 - t) + b * t with t over ByteMax; the result is
\* over ByteMax times the denominator of a and b
Lerp(a, b, t) == [i \in 1..3 |-> a[i] * (ByteMax - t) + b[i] * t]

\* _interpolate_lut_quality: <<red, green, blue>> over LutUnit * ByteMax^3
InterpolateLutQuality(r, g, b, lut) ==
    LET n == lut.size
        rl == LowIndex(r, n)
        gl == LowIndex(g, n)
        bl == LowIndex(b, n)
        rh == HighIndex(r, n)
        gh == HighIndex(g, n)
        bh == HighIndex(b, n)
        c00 == Lerp(GetLutValue(lut, rl, gl, bl), GetLutValue(lut, rl, gl, bh), Frac(b, n))
        c01 == Lerp(GetLutValue(lut, rl, gh, bl), GetLutValue(lut, rl, gh, bh), Frac(b, n))
        c10 == Lerp(GetLutValue(lut, rh, gl, bl), GetLutValue(lut, rh, gl, bh), Frac(b, n))
        c11 == Lerp(GetLutValue(lut, rh, gh, bl), GetLutValue(lut, rh, gh, bh), Frac(b, n))
        c0 == Lerp(c00, c01, Frac(g, n))
        c1 == Lerp(c10, c11, Frac(g, n))
    IN  Lerp(c0, c1, Frac(r, n))

\* a + (b - a) * t with t over ByteMax, as _interpolate_lut_fast and the
\* kernel write it
Mix(a, b, t) == [i \in 1..3 |-> a[i] * ByteMax + (b[i] - a[i]) * t]

\* _interpolate_lut_fast: the same corners, blended along b, then g, then r
InterpolateLutFast(r, g, b, lut) ==
    LET n == lut.size
        rl == LowIndex(r, n)
        gl == LowIndex(g, n)
        bl == LowIndex(b, n)
        rh == HighIndex(r, n)
        gh == HighIndex(g, n)
        bh == HighIndex(b, n)
        c00 == Mix(GetLutValue(lut, rl, gl, bl), GetLutValue(lut, rl, gl, bh), Frac(b, n))
        c01 == Mix(GetLutValue(lut, rl, gh, bl), GetLutValue(lut, rl, gh, bh), Frac(b, n))
        c10 == Mix(GetLutValue(lut, rh, gl, bl), GetLutValue(lut, rh, gl, bh), Frac(b, n))
        c11 == Mix(GetLutValue(lut, rh, gh, bl), GetLutValue(lut, rh, gh, bh), Frac(b, n))
        c0 == Mix(c00, c01, Frac(g, n))
        c1 == Mix(c10, c11, Frac(g, n))
    IN  Mix(c0, c1, Frac(r, n))

\* final * 255 for final = r_norm * (1 - strength_factor) + lut_result *
\* strength_factor, over BlendDen
BlendDen == StrengthDen * LutUnit * ByteMax * ByteMax
Blend(v, res, sf) ==
    v * (StrengthDen - sf) * LutUnit * ByteMax * ByteMax + res * sf

\* max(0, min(255, int(final * 255 + 0.5))); no sample is negative, so
\* int() rounds down
RoundToByte(x) == Max(0, Min(ByteMax, (x + BlendDen \div 2) \div BlendDen))

\* The same conversion in double precision: the computed final * 255 + 0.5
\* can fall just below a whole number that the exact value reaches.
RoundToByteAny(x) ==
    {RoundToByte(x)} \cup
    (IF (x + BlendDen \div 2) % BlendDen = 0
     THEN {Max(0, RoundToByte(x) - 1)} ELSE {})

\* final_b, final_g, final_r of a pixel before the conversion to bytes
QualityFinal(p, lut, sf) ==
    LET res == InterpolateLutQuality(p[R], p[G], p[B], lut)
    IN  <<Blend(p[B], res[3], sf), Blend(p[G], res[2], sf),
          Blend(p[R], res[1], sf)>>

\* one pixel of _apply_lut_with_interpolation and of _process_lut_chunk
QualityPixel(p, lut, sf) ==
    LET f == QualityFinal(p, lut, sf)
    IN  <<RoundToByte(f[B]), RoundToByte(f[G]), RoundToByte(f[R]), p[A]>>

\* _apply_lut_with_interpolation
ApplyLutWithInterpolation(image, lut, sf) ==
    [y \in DOMAIN image |->
        [x \in DOMAIN image[y] |-> QualityPixel(image[y][x], lut, sf)]]

\* the pixel _apply_lut_optimized computes at an even x
FastPixel(p, lut, sf) ==
    LET res == InterpolateLutFast(p[R], p[G], p[B], lut)
    IN  <<RoundToByte(Blend(p[B], res[3], sf)),
          RoundToByte(Blend(p[G], res[2], sf)),
          RoundToByte(Blend(p[R], res[1], sf)), p[A]>>

\* _apply_lut_optimized: every 2nd pixel is computed (x = 0, 2, ..., the
\* odd places of a row here), and the pixel after it gets the same colour
\* and keeps its own 4th byte
ApplyLutOptimized(image, lut, sf) ==
    [y \in DOMAIN image |->
        [x \in DOMAIN image[y] |->
            IF x % 2 = 1 THEN FastPixel(image[y][x], lut, sf)
            ELSE LET q == FastPixel(image[y][x - 1], lut, sf)
                 IN  <<q[B], q[G], q[R], image[y][x][A]>>]]

\* the rows current_row .. end_row - 1 of _process_lut_chunk (rows from + 1
\* .. to here)
ProcessRows(image, lut, sf, from, to) ==
    [y \in DOMAIN image |->
        IF y > from /\ y <= to
        THEN [x \in DOMAIN image[y] |-> QualityPixel(image[y][x], lut, sf)]
        ELSE image[y]]

\* _prepare_lut_data: the triples as one contiguous array of float32
PrepareLutData(data) ==
    [i \in 1..(3 * Len(data)) |-> data[((i - 1) \div 3) + 1][((i - 1) % 3) + 1]]

\* LUT_IDX and the three floats read at it
LutIdx(ri, gi, bi, n) == (ri + gi * n + bi * n * n) * 3
Fetch(flat, i) == <<flat[i + 1], flat[i + 2], flat[i + 3]>>

\* r0 and fr (over ByteMax) of the kernel; r1 is r0 + 1 in both branches
KernelLow(v, n) ==
    IF Scaled(v, n) \div ByteMax >= n - 1 THEN n - 2
    ELSE Scaled(v, n) \div ByteMax
KernelFrac(v, n) ==
    IF Scaled(v, n) \div ByteMax >= n - 1 THEN ByteMax
    ELSE Scaled(v, n) - (Scaled(v, n) \div ByteMax) * ByteMax

\* c_final of the kernel: blended along R, then G, then B
KernelInterpolate(r, g, b, flat, n) ==
    LET r0 == KernelLow(r, n)
        g0 == KernelLow(g, n)
        b0 == KernelLow(b, n)
        c00 == Mix(Fetch(flat, LutIdx(r0, g0, b0, n)),
                   Fetch(flat, LutIdx(r0 + 1, g0, b0, n)), KernelFrac(r, n))
        c10 == Mix(Fetch(flat, LutIdx(r0, g0 + 1, b0, n)),
                   Fetch(flat, LutIdx(r0 + 1, g0 + 1, b0, n)), KernelFrac(r, n))
        c01 == Mix(Fetch(flat, LutIdx(r0, g0, b0 + 1, n)),
                   Fetch(flat, LutIdx(r0 + 1, g0, b0 + 1, n)), KernelFrac(r, n))
        c11 == Mix(Fetch(flat, LutIdx(r0, g0 + 1, b0 + 1, n)),
                   Fetch(flat, LutIdx(r0 + 1, g0 + 1, b0 + 1, n)), KernelFrac(r, n))
        c0 == Mix(c00, c10, KernelFrac(g, n))
        c1 == Mix(c01, c11, KernelFrac(g, n))
    IN  Mix(c0, c1, KernelFrac(b, n))

\* (uchar)(clamp(final, 0, 1) * 255.0f): the conversion rounds down
TruncToByte(x) == Max(0, Min(ByteMax * BlendDen, x)) \div BlendDen

\* The same conversion in single precision: the kernel's rounding errors
\* add up to less than KernelSlack / BlendDen (about 0.0005) in final * 255,
\* so a value that close to a whole number can fall on either side of it.
KernelSlack == 128
TruncToByteAny(x) ==
    LET c == Max(0, Min(ByteMax * BlendDen, x))
    IN  {c \div BlendDen}
        \cup (IF c % BlendDen < KernelSlack /\ c >= BlendDen
              THEN {(c \div BlendDen) - 1} ELSE {})
        \cup (IF c % BlendDen > BlendDen - KernelSlack
              THEN {(c \div BlendDen) + 1} ELSE {})

\* final_b, final_g, final_r of a work item before the conversion to bytes:
\* below strength 0.01 the colour is kept
KernelFinal(p, flat, n, sf) ==
    LET res == KernelInterpolate(p[R], p[G], p[B], flat, n)
        final(v, l) == IF sf = 0 THEN v * BlendDen ELSE Blend(v, l, sf)
    IN  <<final(p[B], res[3]), final(p[G], res[2]), final(p[R], res[1])>>

\* a work item as it would be if it wrote 0 into the 4th byte
KernelPixelClearsAlpha(p, flat, n, sf) ==
    LET f == KernelFinal(p, flat, n, sf)
    IN  <<TruncToByte(f[B]), TruncToByte(f[G]), TruncToByte(f[R]), 0>>

\* one work item of apply_lut_3d; the 4th byte is written as 255
KernelPixel(p, flat, n, sf) ==
    LET f == KernelFinal(p, flat, n, sf)
    IN  <<TruncToByte(f[B]), TruncToByte(f[G]), TruncToByte(f[R]), ByteMax>>

\* apply_lut_gpu: _qimage_to_numpy, _prepare_lut_data, the kernel on every
\* pixel, _numpy_to_qimage
ApplyLutGpu(image, lut, sf) ==
    LET arr == ConvertToFormatRGB32(image)
        flat == PrepareLutData(lut.data)
    IN  [y \in DOMAIN arr |->
            [x \in DOMAIN arr[y] |-> KernelPixel(arr[y][x], flat, lut.size, sf)]]

\* With lut_size 1 the kernel sets r0 = lut_size - 2 = -1 and reads lut_data
\* before its start: what it reads is not defined, and unless the strength
\* is below 0.01, where the values read are not used, any colour may come
\* out.  Two such outcomes are an image of all 0 and an image of all 255.
KernelInBounds(n) == n >= 2
Filled(image, v) ==
    [y \in DOMAIN image |-> [x \in DOMAIN image[y] |-> <<v, v, v, ByteMax>>]]
GpuOutcomes(image, lut, sf) ==
    IF KernelInBounds(lut.size) \/ sf = 0 THEN {ApplyLutGpu(image, lut, sf)}
    ELSE {Filled(image, 0), Filled(image, ByteMax)}

(* ---------------- the transforms on their own ---------------- *)
\* A .cube file is loaded and one image is put through one of the
\* transforms.  Here disk holds the file, self the loaded LUT, the strength
\* and how far the transform is, and heap the image: the pixmap's pixels,
\* the image handed to the transform and the image being written.
PixWidth == 3
PixHeight == 5

\* the lattice coordinate <<r, g, b>> of the k-th data row (from 0) of a
\* file written with red changing fastest
Coord(k, n) == <<k % n, (k \div n) % n, k \div (n * n)>>

CubeOf(n, rows) ==
    CubeFile("ok", <<Comment, Title, SizeLine(n), DomainMin>> \o rows)

\* every sample is its own coordinate / (n - 1)
IdentityCube(n) ==
    CubeOf(n, [k \in 1..(n * n * n) |->
                 ValueRow([c \in 1..3 |-> (Coord(k - 1, n)[c] * LutUnit) \div (n - 1)])])
\* every sample is 1 - coordinate / (n - 1)
InvertCube(n) ==
    CubeOf(n, [k \in 1..(n * n * n) |->
                 ValueRow([c \in 1..3 |->
                    LutUnit - (Coord(k - 1, n)[c] * LutUnit) \div (n - 1)])])
\* eight different samples, with a comment line among the rows
MixedCube ==
    LET row(k) == ValueRow(<<k % 3, (k \div 3) % 3, (2 * k) % 3>>)
    IN  CubeOf(2, <<row(0), row(1), row(2), Comment, row(3), row(4), row(5),
                    row(6), row(7)>>)

\* LUT_3D_SIZE 1 and one row, which load_cube_lut accepts
OneRowCube == CubeOf(1, <<ValueRow(<<1, 1, 1>>)>>)

PixCubes ==
    {IdentityCube(2), IdentityCube(3), InvertCube(2), MixedCube, OneRowCube}

\* a pixel with value v in one colour byte and in its 4th byte
Probe(v, c) ==
    [i \in 1..4 |-> IF i = c \/ i = A THEN v
                    ELSE IF i = ((c % 3) + 1) THEN (v * 7 + 13) % (ByteMax + 1)
                    ELSE ByteMax - v]
Neighbours == {<<10, 200, 90, 128>>}

\* rows p q p and q p q in turn
TestImage(p, q) ==
    [y \in 1..PixHeight |->
        [x \in 1..PixWidth |-> IF (x + y) % 2 = 0 THEN p ELSE q]]

PixInit ==
    /\ \E v \in 0..ByteMax, c \in {B, G, R}, q \in Neighbours,
          s \in Strengths, f \in PixCubes :
         /\ disk = <<f>>
         /\ self = [current_lut |-> NoLutData, lut_strength |-> s,
                    path |-> "none", current_row |-> 0, chunk_size |-> 0]
         /\ LET image == ConvertToFormatRGB32(TestImage(Probe(v, c), q))
            IN  heap = [pixmap |-> TestImage(Probe(v, c), q),
                        source |-> image, image |-> image]
    /\ stack = <<>>
    /\ pending = [lut |-> 0, image |-> 0]
    /\ inputs = 0

PixReady == self.current_lut # NoLutData /\ self.path = "none"

\* load_cube_lut(file_path)
PixLoad ==
    /\ self.current_lut = NoLutData
    /\ LoadCubeData(disk[1], 1) # NoLutData
    /\ self' = [self EXCEPT !.current_lut = LoadCubeData(disk[1], 1)]
    /\ UNCHANGED <<heap, stack, pending, inputs, disk>>

PixQuality ==
    /\ PixReady
    /\ heap' = [heap EXCEPT !.image =
                  ApplyLutWithInterpolation(@, self.current_lut,
                                            StrengthFactor(self.lut_strength))]
    /\ self' = [self EXCEPT !.path = "quality"]
    /\ UNCHANGED <<stack, pending, inputs, disk>>

PixOptimized ==
    /\ PixReady
    /\ heap' = [heap EXCEPT !.image =
                  ApplyLutOptimized(@, self.current_lut,
                                    StrengthFactor(self.lut_strength))]
    /\ self' = [self EXCEPT !.path = "optimized"]
    /\ UNCHANGED <<stack, pending, inputs, disk>>

PixGpu ==
    /\ PixReady
    /\ \E out \in GpuOutcomes(heap.image, self.current_lut,
                              StrengthFactor(self.lut_strength)) :
         heap' = [heap EXCEPT !.image = out]
    /\ self' = [self EXCEPT !.path = "gpu"]
    /\ UNCHANGED <<stack, pending, inputs, disk>>

\* the ProcessingState set up by _start_async_lut_processing
PixChunkSetup ==
    /\ PixReady
    /\ \E lines \in BOOLEAN :
         self' = [self EXCEPT !.path = "chunk", !.current_row = 0,
                    !.chunk_size = IF lines THEN ChunkRowsLines ELSE ChunkRows]
    /\ UNCHANGED <<heap, stack, pending, inputs, disk>>

\* one run of _process_lut_chunk
PixChunk ==
    /\ self.path = "chunk" /\ self.current_row < PixHeight
    /\ LET end_row == Min(self.current_row + self.chunk_size, PixHeight)
       IN  /\ heap' = [heap EXCEPT !.image =
                         ProcessRows(@, self.current_lut,
                                     StrengthFactor(self.lut_strength),
                                     self.current_row, end_row)]
           /\ self' = [self EXCEPT !.current_row = end_row]
    /\ UNCHANGED <<stack, pending, inputs, disk>>

PixNext ==
    PixLoad \/ PixQuality \/ PixOptimized \/ PixGpu \/ PixChunkSetup \/ PixChunk

PixelSpec == PixInit /\ [][PixNext]_vars

(* ---------------- properties of the processing state ---------------- *)
\* no handler is running and the tick timer is stopped
SchedulerAtRest == stack = <<>> /\ ~self.timer_active

\* C21: whenever no handler is running and the tick timer is stopped,
\* _async_processing_state is empty; and the run of _process_lut_chunk
\* that completes a job leaves _async_processing_state empty and the
\* finalization done.
C21_StateOnlyWhileJobInFlight ==
    /\ [](SchedulerAtRest => self.async_processing_state = None)
    /\ [][(/\ Running("chunk", "start") \/ Running("chunk", "y5304")
           /\ self.async_processing_state # None
           /\ self'.async_processing_state # self.async_processing_state) =>
              /\ self'.async_processing_state = None
              /\ self'.final_processing_state = NoBuf
              /\ ~self'.timer_active]_vars

\* the scheduler is at rest after a job in chunks was completed
C21_Witness ==
    /\ SchedulerAtRest
    /\ self.pixmap.kind = "full"
    /\ ~heap[self.pixmap.job].gpu
    /\ heap[self.pixmap.job].current_row = heap[self.pixmap.job].total_rows
    /\ pending.lut = 0 /\ pending.image = 0

(* ---------------- properties of a chunk that fails ---------------- *)
\* this step is an exception caught in _process_lut_chunk
ChunkRaises == \E j \in Jobs : ~heap[j].failed /\ heap'[j].failed

\* buffer b comes from job j
FromJob(b, j) == b.kind # "none" /\ b.job = j

\* the buffers the viewer holds: on display, waiting to be finalized, kept
\* for zooming, and in the two caches
Held(s) ==
    {s.pixmap, s.final_processing_state, s.last_processed_image}
    \cup {e.val : e \in Entries(s.lut_process_cache)}
    \cup {e.val : e \in Entries(s.enhancement_cache)}

\* C22: an exception caught in _process_lut_chunk stops the tick timer and
\* empties _async_processing_state, writes nothing to the result cache and
\* leaves the display alone; no buffer of a job that failed is held with
\* rows left untransformed, and no buffer at all of a job whose state the
\* handler threw away; once the handlers have returned after the last job
\* was lost, the tick timer is not running; and a tick that finds no state
\* only stops the timer.
C22_ChunkErrorLeavesNothingPartial ==
    /\ [](\A j \in Jobs :
            (heap[j].lost /\ j = LastJob /\ stack = <<>>) => ~self.timer_active)
    /\ [][ChunkRaises =>
            /\ ~self'.timer_active
            /\ self'.async_processing_state = None
            /\ self'.lut_process_cache = self.lut_process_cache
            /\ self'.final_processing_state = self.final_processing_state
            /\ self'.pixmap = self.pixmap]_vars
    /\ [](\A j \in Jobs : heap[j].failed =>
            \A b \in Held(self) : FromJob(b, j) => b.rows = Height(b.img))
    /\ [](\A j \in Jobs : heap[j].lost =>
            \A b \in Held(self) : ~FromJob(b, j))
    /\ [][(Running("chunk", "start") /\ self.async_processing_state = None) =>
            /\ ~self'.timer_active
            /\ stack' = Popped
            /\ heap' = heap
            /\ self'.pixmap = self.pixmap
            /\ self'.lut_process_cache = self.lut_process_cache]_vars

(* ---------------- properties of the request parameters ---------------- *)
InRange(v) == v >= 0 /\ v <= 100

\* C23: a strength outside [0,100] passed to update_lut_strength is refused
\* (lut_strength keeps its value and no preview or job is started for it),
\* and no job ever carries a strength outside [0,100].
C23_OutOfRangeStrengthRefused ==
    /\ [][(Running("update_lut_strength", "start") /\ ~InRange(Top.arg)) =>
            /\ self'.lut_strength = self.lut_strength
            /\ stack' = Popped]_vars
    /\ [](\A j \in Jobs : heap[j].used => InRange(heap[j].str))
    /\ [](InRange(self.lut_strength))

(* ---------------- properties of a job's progress ---------------- *)
\* the runs of _process_lut_chunk a job of `total` rows needs
Ceil(total, chunk) == (total + chunk - 1) \div chunk

\* C29: with input only while the scheduler is idle and the event loop
\* running, a job in _async_processing_state leads to the scheduler being
\* idle with every row of the job done and the timer stopped; a run of
\* _process_lut_chunk on a live job raises current_row by
\* min(chunk_size, total_rows - current_row), which is at least 1, so
\* current_row after k runs is min(k * chunk_size, total_rows) and the
\* ceil(total_rows / chunk_size)-th run completes the job; the run that
\* completes it stops the timer and clears the state.
C29_JobReachesIdle ==
    /\ \A j \in Jobs :
         (self.async_processing_state = j) ~>
            (Idle /\ heap[j].current_row = heap[j].total_rows)
    /\ [][\A j \in Jobs :
            heap'[j].current_row # heap[j].current_row =>
               /\ self.async_processing_state = j /\ Top.fn = "chunk"
               /\ heap[j].chunk_size >= 1
               /\ heap'[j].current_row =
                     heap[j].current_row +
                     Min(heap[j].chunk_size,
                         heap[j].total_rows - heap[j].current_row)
               /\ heap'[j].current_row > heap[j].current_row]_vars
    /\ [][(stack # <<>> /\ Top.fn = "chunk" /\ stack' = Popped
           /\ self.async_processing_state # None) =>
             heap'[self.async_processing_state].current_row >
                heap[self.async_processing_state].current_row]_vars
    /\ [](\A j \in Jobs :
            (heap[j].used /\ ~heap[j].gpu) =>
               \E k \in 0..Ceil(heap[j].total_rows, heap[j].chunk_size) :
                  heap[j].current_row =
                     Min(k * heap[j].chunk_size, heap[j].total_rows))
    /\ [][\A j \in Jobs :
            (heap[j].current_row < heap[j].total_rows
             /\ heap'[j].current_row >= heap'[j].total_rows) =>
               /\ ~self'.timer_active
               /\ self'.async_processing_state = None]_vars

\* the scheduler is idle after a job that took two runs of
\* _process_lut_chunk
C29_Witness ==
    /\ Idle
    /\ \E j \in Jobs :
         /\ heap[j].used /\ ~heap[j].gpu
         /\ heap[j].current_row = heap[j].total_rows
         /\ Ceil(heap[j].total_rows, heap[j].chunk_size) = 2
         /\ heap[j].rows = heap[j].total_rows

(* ---------------- properties of the chunk size ---------------- *)
\* a run of _process_lut_chunk starts on job j
ChunkBegins(j) ==
    Running("chunk", "start") /\ self.async_processing_state = j

\* the row at which the run that begins in this step will stop
EndRow(j) ==
    IF Len(stack') = Len(stack) THEN stack'[Len(stack')].end
    ELSE heap'[j].current_row

\* C31: a CPU job started while visible line overlays exist gets a chunk
\* size of 4 rows, a job started without them 8 rows, and 4 < 8; the chunk
\* size of a job never changes afterwards; and every run of
\* _process_lut_chunk on the job stops at most that many rows after the
\* row it started from.
C31_ChunkSizeByAnnotations ==
    /\ [][\A j \in Jobs :
            (~heap[j].used /\ heap'[j].used /\ ~heap'[j].gpu) =>
               /\ heap'[j].chunk_size =
                     (IF HasLines(self) THEN ChunkRowsLines ELSE ChunkRows)
               /\ ChunkRowsLines < ChunkRows]_vars
    /\ [][\A j \in Jobs :
            heap[j].used => heap'[j].chunk_size = heap[j].chunk_size]_vars
    /\ [][\A j \in Jobs :
            ChunkBegins(j) =>
               EndRow(j) = Min(heap[j].current_row + heap[j].chunk_size,
                               heap[j].total_rows)]_vars

\* one run used both chunk sizes: a job with the small chunk size is past
\* its first chunk and another job has the large one
C31_Witness ==
    \E j, k \in Jobs :
       /\ heap[j].used /\ ~heap[j].gpu
       /\ heap[j].chunk_size = ChunkRowsLines
       /\ heap[j].current_row >= ChunkRowsLines
       /\ heap[k].used /\ ~heap[k].gpu
       /\ heap[k].chunk_size = ChunkRows

(* ---------------- properties of the rows of a job ---------------- *)
\* C34: within one job current_row stays between 0 and total_rows and never
\* decreases, and no row of the job's image is transformed a second time.
C34_EachRowOnce ==
    /\ [](\A j \in Jobs :
            heap[j].used =>
               /\ 0 <= heap[j].current_row
               /\ heap[j].current_row <= heap[j].total_rows)
    /\ [][\A j \in Jobs :
            heap[j].used => heap'[j].current_row >= heap[j].current_row]_vars
    /\ [](\A j \in Jobs : (heap[j].used /\ ~heap[j].gpu) => ~heap[j].twice)

(* ---------------- properties of the GPU branch ---------------- *)
\* _start_async_lut_processing takes the GPU branch and apply_lut_gpu
\* returns an image
GpuDispatched == Running("start_async", "start") /\ stack' = Goto("y5186")
\* the GPU branch returns from _start_async_lut_processing
GpuReturns == Running("start_async", "y5186") /\ stack' = Popped
\* no pixmap awaits finalization; the one on display is the image of job j
\* under the job's LUT and strength, and the result cache holds it under the
\* current signature
Finalized(s, j) ==
    LET key == GetLutCacheKey(s)
    IN  /\ s.final_processing_state = NoBuf
        /\ s.pixmap.kind \in {"full", "sync"}
        /\ s.pixmap.img = heap[j].img
        /\ s.pixmap.lut = heap[j].lut
        /\ s.pixmap.str = heap[j].str
        /\ key # NoKey => /\ key \in Keys(s.lut_process_cache)
                          /\ Get(s.lut_process_cache, key) = s.pixmap

\* C30: the GPU path is synchronous and unchunked. When
\* _start_async_lut_processing takes the GPU branch and the dispatch
\* succeeds, no processing state is created, the tick timer is not running
\* and the job that was in flight has been cancelled; when the call returns,
\* the pixmap of the request is on display and in the result cache, and the
\* scheduler holds no state, no pixmap awaiting finalization and no running
\* timer.
C30_GpuPathSynchronous ==
    /\ [][GpuDispatched =>
            /\ self'.async_processing_state = None
            /\ ~self'.timer_active
            /\ self'.final_processing_state.kind = "full"
            /\ heap'[self'.final_processing_state.job].gpu
            /\ self.async_processing_state # None =>
                  heap'[self.async_processing_state].cancelled]_vars
    /\ [][GpuReturns =>
            /\ self.final_processing_state # NoBuf
            /\ heap[self.final_processing_state.job].gpu
            /\ self'.async_processing_state = None
            /\ ~self'.timer_active
            /\ Finalized(self', self.final_processing_state.job)]_vars

(* ---------------- properties of the result cache ---------------- *)
\* this step runs _async_finalize_step on a pixmap: at the end of the GPU
\* branch, or in the run of _process_lut_chunk that completes a job
FinalizeStep ==
    \/ GpuReturns /\ self.final_processing_state # NoBuf
    \/ /\ Running("chunk", "start") \/ Running("chunk", "y5304")
       /\ self.async_processing_state # None
       /\ self'.async_processing_state = None
       /\ stack' = Popped

\* C32: after a finalization has stored its pixmap under a signature, the
\* result cache holds at most 3 entries.
C32_FinalizeBoundsResultCache ==
    [][(FinalizeStep /\ GetLutCacheKey(self') # NoKey) =>
          Len(self'.lut_process_cache) <= FinalCacheMax]_vars

\* C33: after a finalization under a signature, the result cache has an
\* entry under that signature.
C33_FinalizedEntryKept ==
    [][(FinalizeStep /\ GetLutCacheKey(self') # NoKey) =>
          GetLutCacheKey(self') \in Keys(self'.lut_process_cache)]_vars

(* ---------------- properties of a disabled LUT ---------------- *)
\* C35: while the LUT is disabled (lut_enabled is False, as after
\* toggle_lut_enabled(False) and apply_selected_lut("None")), no step puts a
\* LUT-transformed pixmap on display.
C35_NoLutResultWhileDisabled ==
    [][(~self'.lut_enabled /\ self'.pixmap # self.pixmap) =>
          self'.pixmap.lut = None]_vars

(* ---------------- properties of the lattice reads ---------------- *)
\* the index ri + gi * lut_size + bi * lut_size * lut_size of each of the
\* eight corners get_lut_value is called with
CpuCorners(r, g, b, n) ==
    {ri + gi * n + bi * n * n :
        ri \in {LowIndex(r, n), HighIndex(r, n)},
        gi \in {LowIndex(g, n), HighIndex(g, n)},
        bi \in {LowIndex(b, n), HighIndex(b, n)}}

\* the offsets i000 .. i111 of the kernel and the two that follow each
KernelReads(r, g, b, n) ==
    {LutIdx(ri, gi, bi, n) + c :
        ri \in {KernelLow(r, n), KernelLow(r, n) + 1},
        gi \in {KernelLow(g, n), KernelLow(g, n) + 1},
        bi \in {KernelLow(b, n), KernelLow(b, n) + 1},
        c \in 0..2}

\* the pixels of the image handed to the transform
SourcePixels ==
    {heap.source[y][x] : y \in 1..PixHeight, x \in 1..PixWidth}

\* a CPU transform that calls _interpolate_lut_quality has run, or is running
CpuInterpolated == self.path \in {"quality", "chunk"}
\* the kernel has run with a strength at which it reads the LUT
KernelInterpolated ==
    self.path = "gpu" /\ StrengthFactor(self.lut_strength) # 0

\* C36: for a LUT load_cube_lut has returned and every pixel of the image,
\* the eight corner indices of _interpolate_lut_quality lie in
\* [0, len(lut_data)), so get_lut_value never falls back to the pixel's
\* colour, and every element the kernel reads lies within the LUT buffer of
\* 3 * lut_size^3 floats.
C36_LatticeReadsInBounds ==
    LET n == self.current_lut.size
        len == Len(self.current_lut.data)
    IN  \A p \in SourcePixels :
           /\ CpuInterpolated =>
                CpuCorners(p[R], p[G], p[B], n) \subseteq 0..(len - 1)
           /\ KernelInterpolated =>
                KernelReads(p[R], p[G], p[B], n) \subseteq 0..(3 * len - 1)

\* the same for LUTs with at least two samples along each axis
LatticeReadsInBoundsFromTwo ==
    self.current_lut.size >= 2 => C36_LatticeReadsInBounds

(* ---------------- properties of _manage_cache ---------------- *)
\* C37: after any sequence of calls of _manage_cache on one dictionary the
\* dictionary has at most max_cache_size entries and holds the key of the
\* last call with the value of that call; and a call that finds
\* max_cache_size entries leaves, next to its own key, exactly the
\* max_cache_size/2 keys that entered the dictionary last.
C37_ManageCacheBounded ==
    /\ [](Len(self.pixmap_cache) <= max_cache_size)
    /\ [](inputs > 0 =>
            /\ self.key \in Keys(self.pixmap_cache)
            /\ Get(self.pixmap_cache, self.key) = self.value)
    /\ [][Len(self.pixmap_cache) >= max_cache_size =>
            /\ Keys(self'.pixmap_cache) =
                  MostRecent(self.pixmap_cache) \cup {self'.key}
            /\ Cardinality(MostRecent(self.pixmap_cache)) =
                  max_cache_size \div 2]_vars

\* the limit was hit a second time, after a call with a key used before
C37_Witness ==
    /\ pending > 0
    /\ inputs > max_cache_size + max_cache_size \div 2
    /\ Len(self.pixmap_cache) <= max_cache_size \div 2 + 1
    /\ 1 \notin Keys(self.pixmap_cache)

(* ---------------- properties of the pixel arithmetic ---------------- *)
Colours == {B, G, R}
Dist(a, b) == IF a > b THEN a - b ELSE b - a

\* the colour bytes of row y of the image are within d of the bytes the
\* transform was given
RowWithin(y, d) ==
    \A x \in 1..PixWidth, c \in Colours :
        Dist(heap.image[y][x][c], heap.source[y][x][c]) <= d

\* C24: at strength 0 every colour byte written by a CPU path
\* (_apply_lut_with_interpolation, _apply_lut_optimized, the rows done by
\* _process_lut_chunk) is within 1 of the input byte, whichever way the
\* floating-point conversion rounds.
C24_StrengthZeroIsIdentity ==
    self.lut_strength = 0 =>
        /\ self.path \in {"quality", "optimized"} =>
              \A y \in 1..PixHeight : RowWithin(y, 1)
        /\ self.path = "chunk" =>
              \A y \in 1..self.current_row : RowWithin(y, 1)
        /\ self.current_lut # NoLutData =>
              \A y \in 1..PixHeight, x \in 1..PixWidth, c \in Colours :
                 \A v \in RoundToByteAny(
                            QualityFinal(heap.source[y][x], self.current_lut, 0)[c]) :
                    Dist(v, heap.source[y][x][c]) <= 1

\* every sample of the lattice is its own coordinate / (lut_size - 1)
IsIdentityLattice(lut) ==
    /\ lut.size >= 2
    /\ \A ri, gi, bi \in 0..(lut.size - 1) :
          GetLutValue(lut, ri, gi, bi) =
             [c \in 1..3 |-> (<<ri, gi, bi>>[c] * LutUnit) \div (lut.size - 1)]
          /\ \A c \in 1..3 : (<<ri, gi, bi>>[c] * LutUnit) % (lut.size - 1) = 0

\* C25: with an identity lattice and strength 100, every colour byte written
\* by _apply_lut_with_interpolation and by _process_lut_chunk is within 1 of
\* the input byte, for every input byte 0 .. 255 and whichever way the
\* floating-point conversion rounds.
C25_IdentityLatticeIsIdentity ==
    (IsIdentityLattice(self.current_lut) /\ self.lut_strength = 100) =>
        /\ self.path = "quality" => \A y \in 1..PixHeight : RowWithin(y, 1)
        /\ self.path = "chunk" => \A y \in 1..self.current_row : RowWithin(y, 1)
        /\ self.path = "none" =>
              \A y \in 1..PixHeight, x \in 1..PixWidth, c \in Colours :
                 \A v \in RoundToByteAny(
                            QualityFinal(heap.source[y][x], self.current_lut,
                                         StrengthDen)[c]) :
                    Dist(v, heap.source[y][x][c]) <= 1

\* an identity lattice of size 3 at strength 100 was applied by
\* _apply_lut_with_interpolation to an image with a red byte of 255 next to
\* pixels off the lattice
C25_Witness ==
    /\ IsIdentityLattice(self.current_lut) /\ self.current_lut.size = 3
    /\ self.lut_strength = 100 /\ self.path = "quality"
    /\ heap.source[1][1][R] = ByteMax
    /\ heap.source[1][2][R] = 90
    /\ heap.image[1][1][R] = ByteMax

\* the data rows of the file on disk, in file order
FileRows == SelectSeq(disk[1].lines, LAMBDA r : r.kind = "row")
\* the bytes that lie on the lattice of size n, by lattice coordinate
OnLattice(n) == {i \in 0..(n - 1) : (i * ByteMax) % (n - 1) = 0}
LatticeByte(i, n) == (i * ByteMax) \div (n - 1)

\* C26: when load_cube_lut has returned, the LUT of size N >= 2 holds the N^3
\* data rows of its file in file order, and for every lattice coordinate
\* (r, g, b) both backends read row r + g*N + b*N^2: get_lut_value and the
\* kernel's LUT_IDX on the flattened array, and so do the two interpolations for a pixel on the lattice.
C26_RowsInFileOrder ==
    (PixReady /\ self.current_lut.size >= 2) =>
        LET n == self.current_lut.size
            data == self.current_lut.data
            flat == PrepareLutData(data)
            row(ri, gi, bi) == FileRows[ri + gi * n + bi * n * n + 1].vals
        IN  /\ Len(data) = n * n * n
            /\ \A k \in 1..(n * n * n) : data[k] = FileRows[k].vals
            /\ \A ri, gi, bi \in 0..(n - 1) :
                  /\ GetLutValue(self.current_lut, ri, gi, bi) = row(ri, gi, bi)
                  /\ Fetch(flat, LutIdx(ri, gi, bi, n)) = row(ri, gi, bi)
            /\ \A ri, gi, bi \in OnLattice(n) :
                  LET at == [c \in 1..3 |->
                               row(ri, gi, bi)[c] * ByteMax * ByteMax * ByteMax]
                  IN  /\ InterpolateLutQuality(LatticeByte(ri, n), LatticeByte(gi, n),
                                               LatticeByte(bi, n), self.current_lut) = at
                      /\ KernelInterpolate(LatticeByte(ri, n), LatticeByte(gi, n),
                                           LatticeByte(bi, n), flat, n) = at

\* the file with eight different rows and a comment among them was loaded
C26_Witness ==
    /\ disk[1] = MixedCube
    /\ self.current_lut.size = 2
    /\ self.current_lut.data[4] = <<0, 1, 0>>
    /\ self.current_lut.data[2] = <<1, 0, 2>>

\* C27: for the same image, LUT and strength, every colour byte of the GPU
\* result is within 2 of the byte _apply_lut_with_interpolation writes,
\* whichever way the two conversions round.
C27_CpuGpuAgree ==
    /\ self.path = "gpu" =>
          LET cpu == ApplyLutWithInterpolation(
                        heap.source, self.current_lut,
                        StrengthFactor(self.lut_strength))
          IN  \A y \in 1..PixHeight, x \in 1..PixWidth, c \in Colours :
                 Dist(heap.image[y][x][c], cpu[y][x][c]) <= 2
    /\ (PixReady /\ KernelInBounds(self.current_lut.size)) =>
          LET sf == StrengthFactor(self.lut_strength)
              flat == PrepareLutData(self.current_lut.data)
          IN  \A y \in 1..2, x \in 1..PixWidth, c \in Colours :
                 \A a \in RoundToByteAny(
                            QualityFinal(heap.source[y][x], self.current_lut, sf)[c]),
                    g \in TruncToByteAny(
                            KernelFinal(heap.source[y][x], flat,
                                        self.current_lut.size, sf)[c]) :
                    Dist(a, g) <= 2

====
